---- MODULE Spec2Model ----
(***************************************************************************)
(* Model of webextract's extraction orchestrator                           *)
(* (webextract/core/extractor.py, class DataExtractor) together with the   *)
(* confidence scorer it calls (webextract/core/confidence_scorer.py).      *)
(*                                                                         *)
(* Conventions                                                             *)
(*  - A Python string whose text matters (an error message) is a sequence  *)
(*    of tokens; f-string formatting is concatenation of token sequences.  *)
(*  - A Python string of which only the size matters is a record           *)
(*    [t |-> "str", len, strip]: len(s) and len(s.strip()).                *)
(*  - Scores are in hundredths (0.1 is 10).  The code adds IEEE doubles;   *)
(*    the only place where the rounding of a sum is observed is the        *)
(*    comparison `confidence > 0.3`, so a confidence carries, next to its  *)
(*    value in hundredths h, the field r: r = 1 when the double is above   *)
(*    the literal it is compared with although the decimal sum equals it   *)
(*    (0.1 + 0.2 is 0.30000000000000004 > 0.3).                            *)
(***************************************************************************)
EXTENDS Integers, Sequences, FiniteSets, TLC

(***************************************************************************)
(* Bounds of the model.                                                    *)
(***************************************************************************)
MaxBatch == 2
MaxWorkers == 2

(***************************************************************************)
(* Python values.                                                          *)
(***************************************************************************)
None == [t |-> "null"]
PyStr(n, s) == [t |-> "str", len |-> n, strip |-> s]
PyMsg(toks) == [t |-> "msg", text |-> toks]
PyList(n) == [t |-> "list", len |-> n]
PyBool(b) == [t |-> "bool", v |-> b]
PyInt(n) == [t |-> "int", v |-> n]
PyDict(f) == [t |-> "dict", items |-> f]
EmptyDict == PyDict(<<>>)

\* len(v)
Len_(v) ==
  CASE v.t = "str" -> v.len
    [] v.t = "msg" -> Len(v.text)
    [] v.t = "list" -> v.len
    [] v.t = "dict" -> Cardinality(DOMAIN v.items)
    [] OTHER -> 0

\* len(v.strip())
StripLen(v) ==
  CASE v.t = "str" -> v.strip
    [] v.t = "msg" -> Len(v.text)
    [] OTHER -> 0

\* bool(v)
Truthy(v) ==
  CASE v.t = "null" -> FALSE
    [] v.t = "bool" -> v.v
    [] v.t = "int" -> v.v # 0
    [] OTHER -> Len_(v) > 0

\* len(v) is defined: for other values it raises TypeError
HasLen(v) == v.t \in {"str", "msg", "list", "dict"}

\* d.get(key, default) on a dict value
Get(d, key, default) == IF key \in DOMAIN d.items THEN d.items[key] ELSE default

(***************************************************************************)
(* Exceptions (webextract/core/exceptions.py).                             *)
(***************************************************************************)
\* the direct base class of each exception class
BaseOf(cls) ==
  CASE cls = "ExtractionError" -> "WebExtractError"
    [] cls = "ScrapingError" -> "WebExtractError"
    [] cls = "LLMError" -> "WebExtractError"
    [] cls = "ConfigurationError" -> "WebExtractError"
    [] cls = "ModelNotAvailableError" -> "LLMError"
    [] cls = "RateLimitError" -> "WebExtractError"
    [] cls = "AuthenticationError" -> "WebExtractError"
    [] cls = "ContentTooLargeError" -> "ExtractionError"
    [] cls = "InvalidURLError" -> "ScrapingError"
    [] cls = "WebExtractError" -> "Exception"
    [] cls = "Exception" -> "BaseException"
    [] OTHER -> "Exception"

RECURSIVE IsSubclass(_, _)
IsSubclass(cls, base) ==
  IF cls = base THEN TRUE
  ELSE IF cls = "BaseException" THEN FALSE
  ELSE IsSubclass(BaseOf(cls), base)

\* isinstance(e, (b1, b2, ...))
IsInstance(e, bases) == \E b \in bases : IsSubclass(e.cls, b)

Exc(cls, message) == [cls |-> cls, message |-> message]

\* WebExtractError._build_full_message: the message comes first, the error
\* code (the class name by default) last
_build_full_message(e) == e.message \o <<"| Error Code:", e.cls>>

\* str(e)
str(e) ==
  IF IsSubclass(e.cls, "WebExtractError") THEN _build_full_message(e) ELSE e.message

(***************************************************************************)
(* URLs.  urllib.parse.urlparse splits a URL into scheme and netloc and    *)
(* raises ValueError on an unbalanced IPv6 bracket.                        *)
(***************************************************************************)
Urls == {"https://a.example/", "https://b.example/", "//a.example/page",
         "https:///page", "http://[::1/"}

\* the five URLs of the batch scenario: "https://e<k>.example/"
ScenarioUrls == <<"https://e1.example/", "https://e2.example/", "https://e3.example/",
                  "https://e4.example/", "https://e5.example/">>

Range(seq) == {seq[k] : k \in DOMAIN seq}

urlparse(url) ==
  CASE url = "https://a.example/" -> [raises |-> FALSE, scheme |-> "https", netloc |-> "a.example"]
    [] url = "https://b.example/" -> [raises |-> FALSE, scheme |-> "https", netloc |-> "b.example"]
    [] url = "//a.example/page" -> [raises |-> FALSE, scheme |-> "", netloc |-> "a.example"]
    [] url = "https:///page" -> [raises |-> FALSE, scheme |-> "https", netloc |-> ""]
    [] url \in Range(ScenarioUrls) -> [raises |-> FALSE, scheme |-> "https", netloc |-> "e.example"]
    [] OTHER -> [raises |-> TRUE, scheme |-> "", netloc |-> ""]

\* _validate_url testing the scheme alone
_validate_url_scheme_only(url) ==
  LET parsed == urlparse(url)
  IN  IF parsed.raises THEN FALSE ELSE parsed.scheme # ""

\* DataExtractor._validate_url
_validate_url(url) ==
  LET parsed == urlparse(url)
  IN  IF parsed.raises THEN FALSE
      ELSE parsed.scheme # "" /\ parsed.netloc # ""

(***************************************************************************)
(* ConfidenceConfig defaults, in hundredths.                               *)
(***************************************************************************)
base_extraction_score == 10
title_weight == 10
description_weight == 5
content_length_thresholds == {<<1000, 20>>, <<500, 15>>, <<200, 10>>, <<100, 5>>}
structured_data_weight == 20
summary_weight == 10
summary_min_length == 20
topics_weight == 5
entities_weight == 5
rich_data_weight == 10
rich_data_threshold == 4
error_penalty == -50
empty_content_penalty == -30
max_score == 100
min_score == 0

\* the length below which main content counts as empty
ShortContent == 50

(***************************************************************************)
(* ConfidenceScorer.                                                       *)
(***************************************************************************)
Max(a, b) == IF a >= b THEN a ELSE b
Min(a, b) == IF a <= b THEN a ELSE b

RECURSIVE SumOver(_, _)
SumOver(S, f) ==
  IF S = {} THEN 0
  ELSE LET x == CHOOSE y \in S : TRUE IN f[x] + SumOver(S \ {x}, f)

\* ConfidenceConfig(): the configuration with every field at its default
ConfidenceConfig ==
  [base_extraction_score |-> base_extraction_score,
   title_weight |-> title_weight,
   description_weight |-> description_weight,
   content_length_thresholds |-> content_length_thresholds,
   structured_data_weight |-> structured_data_weight,
   summary_weight |-> summary_weight,
   summary_min_length |-> summary_min_length,
   topics_weight |-> topics_weight,
   entities_weight |-> entities_weight,
   rich_data_weight |-> rich_data_weight,
   rich_data_threshold |-> rich_data_threshold,
   error_penalty |-> error_penalty,
   empty_content_penalty |-> empty_content_penalty,
   max_score |-> max_score,
   min_score |-> min_score]

\* _score_content_length going through the thresholds in ascending order
_score_content_length_ascending(config, length) ==
  LET met == {p \in config.content_length_thresholds : length >= p[1]}
  IN  IF met = {} THEN 0
      ELSE LET first == CHOOSE p \in met : \A q \in met : p[1] <= q[1]
           IN  first[2]

\* ConfidenceScorer._score_content_length
_score_content_length(config, length) ==
  LET met == {p \in config.content_length_thresholds : length >= p[1]}
  IN  IF met = {} THEN 0
      ELSE LET first == CHOOSE p \in met : \A q \in met : p[1] >= q[1]
           IN  first[2]

\* ConfidenceScorer._score_content_quality
_score_content_quality(config, content) ==
  (IF Truthy(content.title) /\ StripLen(content.title) > 0 THEN config.title_weight ELSE 0)
  + (IF Truthy(content.description) /\ StripLen(content.description) > 0
       THEN config.description_weight ELSE 0)
  + _score_content_length(config, IF Truthy(content.main_content)
                                    THEN Len_(content.main_content) ELSE 0)

\* ConfidenceScorer._has_meaningful_entities
_has_meaningful_entities(entities) ==
  IF entities.t # "dict" THEN FALSE
  ELSE LET per == [k \in DOMAIN entities.items |->
                     LET value == entities.items[k]
                     IN  IF value.t = "list" THEN value.len
                         ELSE IF Truthy(value) THEN 1 ELSE 0]
       IN  SumOver(DOMAIN entities.items, per) > 0

\* ConfidenceScorer._is_field_populated
_is_field_populated(value) ==
  CASE value.t = "null" -> FALSE
    [] value.t \in {"str", "msg"} -> StripLen(value) > 0
    [] value.t \in {"list", "dict"} -> Len_(value) > 0
    [] OTHER -> Truthy(value)

\* ConfidenceScorer._count_populated_fields
_count_populated_fields(structured_info) ==
  Cardinality({key \in DOMAIN structured_info.items :
                 /\ key \notin {"error", "extraction_error"}
                 /\ _is_field_populated(structured_info.items[key])})

\* the test `structured_info.get("error") or structured_info.get("extraction_error")`
HasErrorFlag(structured_info) ==
  \/ Truthy(Get(structured_info, "error", None))
  \/ Truthy(Get(structured_info, "extraction_error", None))

\* ConfidenceScorer._score_structured_data
_score_structured_data(config, structured_info) ==
  IF ~Truthy(structured_info) THEN 0
  ELSE IF HasErrorFlag(structured_info) THEN 0
  ELSE config.structured_data_weight
       + (LET summary == Get(structured_info, "summary", PyStr(0, 0))
          IN  IF Truthy(summary) /\ Len_(summary) >= config.summary_min_length
                THEN config.summary_weight ELSE 0)
       + (LET topics == Get(structured_info, "topics", PyList(0))
          IN  IF Truthy(topics) /\ Len_(topics) > 0 THEN config.topics_weight ELSE 0)
       + (IF _has_meaningful_entities(Get(structured_info, "entities", EmptyDict))
            THEN config.entities_weight ELSE 0)
       + (IF _count_populated_fields(structured_info) >= config.rich_data_threshold
            THEN config.rich_data_weight ELSE 0)

\* the penalties without the error penalty
_calculate_penalties_content_only(config, content, structured_info) ==
  IF ~Truthy(content.main_content) \/ StripLen(content.main_content) < ShortContent
    THEN config.empty_content_penalty ELSE 0

\* ConfidenceScorer._calculate_penalties
_calculate_penalties(config, content, structured_info) ==
  (IF HasErrorFlag(structured_info) THEN config.error_penalty ELSE 0)
  + (IF ~Truthy(content.main_content) \/ StripLen(content.main_content) < ShortContent
       THEN config.empty_content_penalty ELSE 0)

\* the inputs on which the body of calculate_confidence raises: a content
\* or a structured_info without the attributes read (AttributeError), a
\* summary or topics that is truthy and has no len() (TypeError)
ScoringRaises(content, structured_info) ==
  \/ content = None
  \/ structured_info.t # "dict"
  \/ /\ Truthy(structured_info)
     /\ ~HasErrorFlag(structured_info)
     /\ \/ LET summary == Get(structured_info, "summary", PyStr(0, 0))
            IN  Truthy(summary) /\ ~HasLen(summary)
        \/ LET topics == Get(structured_info, "topics", PyList(0))
            IN  Truthy(topics) /\ ~HasLen(topics)

\* calculate_confidence without the clamp to [min_score, max_score]
calculate_confidence_unclamped(config, content, structured_info) ==
  IF ScoringRaises(content, structured_info) THEN config.min_score
  ELSE config.base_extraction_score
       + _score_content_quality(config, content)
       + _score_structured_data(config, structured_info)
       + _calculate_penalties(config, content, structured_info)

\* ConfidenceScorer.calculate_confidence: an exception raised in the body is
\* caught and min_score returned
calculate_confidence(config, content, structured_info) ==
  IF ScoringRaises(content, structured_info) THEN config.min_score
  ELSE LET total_score == config.base_extraction_score
                          + _score_content_quality(config, content)
                          + _score_structured_data(config, structured_info)
                          + _calculate_penalties(config, content, structured_info)
       IN  Max(config.min_score, Min(config.max_score, total_score))

(***************************************************************************)
(* Outcomes of a call: a returned value or a raised exception.             *)
(***************************************************************************)
Ret(v) == [kind |-> "return", value |-> v]
Raise(e) == [kind |-> "raise", value |-> e]

(***************************************************************************)
(* The collaborators of DataExtractor and the behaviours they can show.    *)
(***************************************************************************)
\* datetime.now().isoformat(): no decision of the program depends on the
\* reading, so one reading stands for all of them
Times == {"2026-01-01T00:00:00"}

\* self.config.llm.model_name
model_name == "llama3.2"

\* llm_client.is_model_available(): the Ollama client answers False on any
\* failure, the Anthropic client raises ModelNotAvailableError, and a client
\* may fail with any other exception
IsModelAvailableOutcomes ==
  {Ret(PyBool(TRUE)), Ret(PyBool(FALSE)),
   Raise(Exc("ModelNotAvailableError", <<"Cannot check model availability">>)),
   Raise(Exc("Exception", <<"connection refused">>))}

\* a page as the Content Selector returns it: 60 characters of main content,
\* no title and no description
ShortPage ==
  [title |-> None, description |-> None,
   main_content |-> PyStr(60, 60), links |-> PyList(0),
   metadata |-> EmptyDict]

\* WebScraper(config).scrape(url): content of at least 50 characters, None
\* when the page could not be fetched, ScrapingError on a timeout,
\* ExtractionError on insufficient content
ScrapeOutcomes ==
  {Ret(ShortPage), Ret(None),
   Raise(Exc("ScrapingError", <<"Timeout while fetching page">>)),
   Raise(Exc("ExtractionError", <<"Insufficient content extracted from page">>))}

\* the length of the content preview the clients put in a safe fallback:
\* content[:200] in OllamaClient and in _generate_with_prompt, content[:100]
\* in AnthropicClient.generate_structured_data
PreviewLen == 200
AnthropicPreviewLen == 100

\* content[:n]
Slice(content, n) == PyStr(Min(content.len, n), Min(content.strip, n))

\* the length of "Content extraction failed. Preview: " and of "..."
FallbackPrefixLen == 36
EllipsisLen == 3

\* f"Content extraction failed. Preview: {content_preview}..."
FallbackSummary(content_preview) ==
  [t |-> "str",
   len |-> FallbackPrefixLen + content_preview.len + EllipsisLen,
   strip |-> FallbackPrefixLen + content_preview.len + EllipsisLen,
   preview |-> content_preview]

\* a string literal of the code: its text and its length
Literal(text, n) == [t |-> "str", len |-> n, strip |-> n, text |-> text]

\* a safe fallback that lacks the error flag
_create_safe_fallback_unflagged(content_preview) ==
  PyDict([summary |-> FallbackSummary(content_preview),
          topics |-> PyList(0),
          category |-> Literal("unknown", 7),
          sentiment |-> Literal("neutral", 7),
          entities |-> PyDict([people |-> PyList(0), organizations |-> PyList(0),
                               locations |-> PyList(0)]),
          key_facts |-> PyList(0),
          important_dates |-> PyList(0),
          statistics |-> PyList(0)])

\* OllamaClient._create_safe_fallback
_create_safe_fallback(content_preview) ==
  PyDict([summary |-> FallbackSummary(content_preview),
          topics |-> PyList(0),
          category |-> Literal("unknown", 7),
          sentiment |-> Literal("neutral", 7),
          entities |-> PyDict([people |-> PyList(0), organizations |-> PyList(0),
                               locations |-> PyList(0)]),
          key_facts |-> PyList(0),
          important_dates |-> PyList(0),
          statistics |-> PyList(0),
          extraction_error |-> PyBool(TRUE)])

\* a result with every signal the scorer rewards
RichInfo ==
  PyDict([summary |-> PyStr(30, 30), topics |-> PyList(2),
          category |-> PyStr(4, 4), sentiment |-> PyStr(7, 7),
          entities |-> PyDict([people |-> PyList(1), organizations |-> PyList(0),
                               locations |-> PyList(0)]),
          key_facts |-> PyList(1), important_dates |-> PyList(0),
          statistics |-> PyList(0)])

\* a valid result with nothing but a short summary
WeakInfo ==
  PyDict([summary |-> PyStr(5, 5), topics |-> PyList(0),
          category |-> PyStr(0, 0), sentiment |-> PyStr(0, 0),
          entities |-> PyDict([people |-> PyList(0), organizations |-> PyList(0),
                               locations |-> PyList(0)]),
          key_facts |-> PyList(0), important_dates |-> PyList(0),
          statistics |-> PyList(0)])

\* llm_client.generate_structured_data (extract_with_schema is the same call
\* with the schema passed on, so the schema argument is left out): a valid
\* result, the safe fallback, a value that is not a mapping, LLMError, or an
\* error outside the LLMError hierarchy (AuthenticationError derives from
\* WebExtractError)
GenerateOutcomes ==
  {Ret(RichInfo), Ret(WeakInfo), Ret(_create_safe_fallback(Slice(PyStr(60, 60), PreviewLen))),
   Ret(PyList(2)),
   Raise(Exc("LLMError", <<"Backend request failed">>)),
   Raise(Exc("AuthenticationError", <<"Invalid API key">>))}

(***************************************************************************)
(* DataExtractor: the pure parts of extract.                               *)
(***************************************************************************)
\* the literal of `if confidence > 0.3`
CacheThreshold == 30

\* the doubles a sum of `h` hundredths can be
Confidences(h) == {[h |-> h, r |-> r] : r \in IF h = CacheThreshold THEN {0, 1} ELSE {0}}

\* confidence > literal, on doubles
Exceeds(confidence, literal) ==
  \/ confidence.h > literal
  \/ confidence.h = literal /\ confidence.r = 1

\* the cache condition with >= in place of >
ShouldCache_at_least(confidence) == confidence.h >= CacheThreshold

\* `if confidence > 0.3`
ShouldCache(confidence) == Exceeds(confidence, CacheThreshold)

\* a store that updates an existing entry's structured_info in place
Store_merge(c, url, result) ==
  IF url \in DOMAIN c
    THEN [c EXCEPT ![url].structured_info = result.structured_info]
  ELSE [u \in DOMAIN c \cup {url} |-> IF u = url THEN result ELSE c[u]]

\* a store that rebinds the cache to a dict holding the new entry alone
Store_fresh_dict(c, url, result) == [u \in {url} |-> result]

\* `self._extraction_cache[url] = result` on the dict `c`
Store(c, url, result) ==
  [u \in DOMAIN c \cup {url} |-> IF u = url THEN result ELSE c[u]]

\* DataExtractor._create_error_result
_create_error_result(url, error_message, now) ==
  [url |-> url,
   extracted_at |-> now,
   content |-> [title |-> None, description |-> None,
                main_content |-> PyMsg(<<"Extraction failed:">> \o error_message),
                links |-> PyList(0),
                metadata |-> PyDict([error |-> PyMsg(error_message)])],
   structured_info |-> PyDict([error |-> PyMsg(error_message),
                               summary |-> PyMsg(<<"Failed to extract content:">> \o error_message),
                               extraction_error |-> PyBool(TRUE)]),
   confidence |-> [h |-> 0, r |-> 0]]

\* extract without its `except Exception` clause
ExtractExcept_typed_only(url, e, now) ==
  IF IsInstance(e, {"ExtractionError", "ScrapingError", "LLMError", "ConfigurationError"})
    THEN Ret(_create_error_result(url, str(e), now))
  ELSE Raise(e)

\* the two except clauses that close extract's try block
ExtractExcept(url, e, now) ==
  IF IsInstance(e, {"ExtractionError", "ScrapingError", "LLMError", "ConfigurationError"})
    THEN Ret(_create_error_result(url, str(e), now))
  ELSE IF IsInstance(e, {"Exception"})
    THEN Ret(_create_error_result(url, <<"Unexpected error:">> \o str(e), now))
  ELSE Raise(e)

\* extract's availability block: what the block leaves to the rest of extract
CheckAvailability(o) ==
  IF o.kind = "return"
    THEN IF Truthy(o.value) THEN Ret(o.value)
         ELSE Raise(Exc("LLMError", <<"Model", model_name, "is not available">>))
  ELSE IF IsInstance(o.value, {"LLMError"}) THEN Raise(o.value)
  ELSE Raise(Exc("LLMError", <<"Cannot verify model availability:">> \o str(o.value)))

\* _scrape_content wrapping a foreign error without its text
_scrape_content_drops_cause(url, o) ==
  IF o.kind = "return"
    THEN IF o.value = None
           THEN Raise(Exc("ScrapingError", <<"Failed to scrape content from", url>>))
         ELSE Ret(o.value)
  ELSE IF IsInstance(o.value, {"ScrapingError"}) THEN Raise(o.value)
  ELSE Raise(Exc("ScrapingError", <<"Web scraping failed for", url>>))

\* DataExtractor._scrape_content followed by extract's `if not extracted_content`
_scrape_content(url, o) ==
  IF o.kind = "return"
    THEN IF o.value = None
           THEN Raise(Exc("ScrapingError", <<"Failed to scrape content from", url>>))
         ELSE Ret(o.value)
  ELSE IF IsInstance(o.value, {"ScrapingError"}) THEN Raise(o.value)
  ELSE Raise(Exc("ScrapingError", <<"Web scraping failed for", url, ":">> \o str(o.value)))

\* DataExtractor._process_with_llm inside extract's try/except around it
_process_with_llm(o) ==
  IF o.kind = "return" THEN Ret(o.value)
  ELSE IF IsInstance(o.value, {"LLMError"}) THEN Raise(o.value)
  ELSE Raise(Exc("LLMError", <<"LLM processing failed:">> \o str(o.value)))

(***************************************************************************)
(* State.                                                                  *)
(***************************************************************************)
VARIABLES
  env,        \* the behaviours the collaborators can show in this run
  cache,      \* self._extraction_cache: a mapping from URLs to records
  call,       \* the public method the caller is in, with its arguments
  flows,      \* the invocations of extract of the current call, by index
  results,    \* extract_batch's local list `results`
  collected,  \* the indices as_completed has yielded, in the order it did
  returned,   \* the outcome of the last call that came back to the caller
  gen,        \* a request to an LLM client's generate_structured_data
  fn          \* a call of one of the stateless components, with its outcome

vars == <<env, cache, call, flows, results, collected, returned, gen, fn>>

\* no request to an LLM client, no call of a stateless component
NoRequest == [pc |-> "none"]
NoCallFn == [op |-> "none"]

Idle == [op |-> "idle", urls |-> <<>>, max_workers |-> 0]
NotReturned == [kind |-> "none", value |-> None]

\* an invocation extract(url, schema, force_refresh) that has reached `pc`
Flow(url, force_refresh, pc) ==
  [url |-> url, force_refresh |-> force_refresh, pc |-> pc,
   extracted_content |-> None, structured_info |-> None,
   calls |-> {},       \* what the invocation has consulted or called so far
   raised |-> None,    \* the exception a collaborator raised in it, if any
   out |-> NotReturned]

\* collaborators that can show every behaviour on every call
AnyEnv ==
  [is_model_available |-> IsModelAvailableOutcomes,
   scrape |-> [url \in Urls \cup Range(ScenarioUrls) |-> ScrapeOutcomes],
   generate |-> GenerateOutcomes]

\* the state after DataExtractor.__init__
Init ==
  /\ env = AnyEnv
  /\ cache = <<>>
  /\ call = Idle
  /\ flows = <<>>
  /\ results = <<>>
  /\ collected = <<>>
  /\ returned = NotReturned
  /\ gen = NoRequest
  /\ fn = NoCallFn

Running == {i \in DOMAIN flows : flows[i].pc \notin {"pending", "done"}}

\* flow i leaves extract with outcome `out`; `o` is the outcome of the
\* collaborator call it made in this step
Leave(i, out, calls, o) ==
  flows' = [flows EXCEPT ![i].pc = "done", ![i].out = out, ![i].calls = calls,
                         ![i].raised = IF o.kind = "raise" THEN o.value ELSE None]

\* a step that calls no collaborator
NoCall == Ret(None)

(***************************************************************************)
(* The caller.                                                             *)
(***************************************************************************)
\* the caller invokes extract(url, force_refresh=force_refresh)
Extract(url, force_refresh) ==
  /\ call.op = "idle"
  /\ call' = [op |-> "extract", urls |-> <<url>>, max_workers |-> 0]
  /\ flows' = <<Flow(url, force_refresh, "begin")>>
  /\ UNCHANGED <<gen, fn, env, cache, results, collected, returned>>

\* extract returns to the caller
ExtractReturn ==
  /\ call.op = "extract"
  /\ flows[1].pc = "done"
  /\ returned' = flows[1].out
  /\ call' = [op |-> "returned", urls |-> call.urls, max_workers |-> 0]
  /\ flows' = <<>>
  /\ UNCHANGED <<gen, fn, env, cache, results, collected>>

\* the caller invokes extract_batch(urls, max_workers=max_workers): the
\* results list is allocated and every URL is submitted to the pool
ExtractBatch(urls, max_workers) ==
  /\ call.op = "idle"
  /\ call' = [op |-> "extract_batch", urls |-> urls, max_workers |-> max_workers]
  /\ results' = [i \in 1..Len(urls) |-> None]
  /\ flows' = [i \in 1..Len(urls) |-> Flow(urls[i], FALSE, "pending")]
  /\ UNCHANGED <<gen, fn, env, cache, collected, returned>>

\* a pool that starts a thread for every submitted call
StartFlow_unbounded(i) ==
  /\ call.op = "extract_batch"
  /\ flows[i].pc = "pending"
  /\ \A j \in 1..(i - 1) : flows[j].pc # "pending"
  /\ flows' = [flows EXCEPT ![i].pc = "begin"]
  /\ UNCHANGED <<gen, fn, env, cache, call, results, collected, returned>>

\* a pool thread takes the oldest submitted call from the work queue
StartFlow(i) ==
  /\ call.op = "extract_batch"
  /\ flows[i].pc = "pending"
  /\ \A j \in 1..(i - 1) : flows[j].pc # "pending"
  /\ Cardinality(Running) < call.max_workers
  /\ flows' = [flows EXCEPT ![i].pc = "begin"]
  /\ UNCHANGED <<gen, fn, env, cache, call, results, collected, returned>>

\* a loop that fills the list in the order of completion
Collect_in_completion_order(i) ==
  /\ call.op = "extract_batch"
  /\ flows[i].pc = "done"
  /\ i \notin Range(collected)
  /\ collected' = Append(collected, i)
  /\ results' = [results EXCEPT ![Len(collected) + 1] =
                   IF flows[i].out.kind = "return" THEN flows[i].out.value ELSE None]
  /\ UNCHANGED <<gen, fn, env, cache, call, flows, returned>>

\* one iteration of the as_completed loop
Collect(i) ==
  /\ call.op = "extract_batch"
  /\ flows[i].pc = "done"
  /\ i \notin Range(collected)
  /\ collected' = Append(collected, i)
  /\ results' = [results EXCEPT ![i] =
                   IF flows[i].out.kind = "return" THEN flows[i].out.value ELSE None]
  /\ UNCHANGED <<gen, fn, env, cache, call, flows, returned>>

\* the loop is exhausted, the executor is shut down and the list returned
ExtractBatchReturn ==
  /\ call.op = "extract_batch"
  /\ Range(collected) = DOMAIN flows
  /\ returned' = [kind |-> "list", value |-> results]
  /\ call' = [op |-> "returned", urls |-> call.urls, max_workers |-> 0]
  /\ flows' = <<>>
  /\ results' = <<>>
  /\ UNCHANGED <<gen, fn, env, cache, collected>>

\* the caller has the outcome of its call and goes on
Resume ==
  /\ call.op = "returned"
  /\ call' = Idle
  /\ returned' = NotReturned
  /\ collected' = <<>>
  /\ UNCHANGED <<gen, fn, env, cache, flows, results>>

\* DataExtractor.clear_cache
clear_cache ==
  /\ call.op = "idle"
  /\ cache' = <<>>
  /\ UNCHANGED <<gen, fn, env, call, flows, results, collected, returned>>

(***************************************************************************)
(* extract, step by step.                                                  *)
(***************************************************************************)
\* the cache test without its force_refresh operand
CacheHit_ignores_force(force_refresh, url, c) == url \in DOMAIN c

\* `not force_refresh and url in self._extraction_cache`
CacheHit(force_refresh, url, c) == ~force_refresh /\ url \in DOMAIN c

\* URL validation and the cache test `url in self._extraction_cache`
Begin(i) ==
  LET f == flows[i] IN
  /\ f.pc = "begin"
  /\ \E now \in Times :
       IF ~_validate_url(f.url)
         THEN Leave(i, ExtractExcept(f.url, Exc("ExtractionError", <<"Invalid URL format:", f.url>>), now),
                    f.calls, NoCall)
       ELSE IF CacheHit(f.force_refresh, f.url, cache)
         THEN flows' = [flows EXCEPT ![i].pc = "read", ![i].calls = f.calls \cup {"cache"}]
       ELSE flows' = [flows EXCEPT ![i].pc = "avail",
                                   ![i].calls = IF f.force_refresh THEN f.calls
                                                ELSE f.calls \cup {"cache"}]
  /\ UNCHANGED <<gen, fn, env, cache, call, results, collected, returned>>

\* `return self._extraction_cache[url]`
ReadCache(i) ==
  LET f == flows[i] IN
  /\ f.pc = "read"
  /\ \E now \in Times :
       IF f.url \in DOMAIN cache
         THEN Leave(i, Ret(cache[f.url]), f.calls, NoCall)
       ELSE Leave(i, ExtractExcept(f.url, Exc("KeyError", <<f.url>>), now), f.calls, NoCall)
  /\ UNCHANGED <<gen, fn, env, cache, call, results, collected, returned>>

\* the model-availability check
CheckModel(i) ==
  LET f == flows[i] IN
  /\ f.pc = "avail"
  /\ \E o \in env.is_model_available, now \in Times :
       LET r == CheckAvailability(o)
           calls == f.calls \cup {"is_model_available"}
       IN  IF r.kind = "return"
             THEN flows' = [flows EXCEPT ![i].pc = "scrape", ![i].calls = calls]
           ELSE Leave(i, ExtractExcept(f.url, r.value, now), calls, o)
  /\ UNCHANGED <<gen, fn, env, cache, call, results, collected, returned>>

\* `extracted_content = self._scrape_content(url)`
Scrape(i) ==
  LET f == flows[i] IN
  /\ f.pc = "scrape"
  /\ \E o \in env.scrape[f.url], now \in Times :
       LET r == _scrape_content(f.url, o)
           calls == f.calls \cup {"scrape"}
       IN  IF r.kind = "return"
             THEN flows' = [flows EXCEPT ![i].pc = "llm", ![i].calls = calls,
                                         ![i].extracted_content = r.value]
           ELSE Leave(i, ExtractExcept(f.url, r.value, now), calls, o)
  /\ UNCHANGED <<gen, fn, env, cache, call, results, collected, returned>>

\* `structured_info = self._process_with_llm(extracted_content, schema)`
Process(i) ==
  LET f == flows[i] IN
  /\ f.pc = "llm"
  /\ \E o \in env.generate, now \in Times :
       LET r == _process_with_llm(o)
           calls == f.calls \cup {"generate_structured_data"}
       IN  IF r.kind = "return"
             THEN flows' = [flows EXCEPT ![i].pc = "score", ![i].calls = calls,
                                         ![i].structured_info = r.value]
           ELSE Leave(i, ExtractExcept(f.url, r.value, now), calls, o)
  /\ UNCHANGED <<gen, fn, env, cache, call, results, collected, returned>>

\* scoring, construction of the record, the conditional cache write and the
\* return.  StructuredData declares structured_info as a mapping: given
\* another value the constructor of a validating model raises, that of a
\* plain one does not.
Finish(i) ==
  LET f == flows[i] IN
  /\ f.pc = "score"
  /\ \E now \in Times,
        confidence \in Confidences(calculate_confidence(ConfidenceConfig, f.extracted_content,
                                                         f.structured_info)),
        accepted \in IF f.structured_info.t = "dict" THEN {TRUE} ELSE BOOLEAN :
       LET calls == f.calls \cup {"calculate_confidence"}
           result == [url |-> f.url,
                      extracted_at |-> now,
                      content |-> f.extracted_content,
                      structured_info |-> f.structured_info,
                      confidence |-> confidence]
       IN  IF ~accepted
             THEN /\ Leave(i, ExtractExcept(f.url, Exc("ValidationError", <<"structured_info">>), now),
                           calls, NoCall)
                  /\ UNCHANGED cache
           ELSE /\ Leave(i, Ret(result), calls, NoCall)
                /\ IF ShouldCache(confidence)
                     THEN cache' = Store(cache, f.url, result)
                   ELSE UNCHANGED cache
  /\ UNCHANGED <<gen, fn, env, call, results, collected, returned>>

(***************************************************************************)
(* Specification.                                                          *)
(***************************************************************************)
\* the URL lists a caller passes to extract_batch
UrlLists == UNION {[1..n -> Urls] : n \in 0..MaxBatch}

Next ==
  \/ call.op = "idle" /\ \E url \in Urls, force_refresh \in BOOLEAN : Extract(url, force_refresh)
  \/ ExtractReturn
  \/ call.op = "idle" /\ \E urls \in UrlLists, max_workers \in 1..MaxWorkers :
                            ExtractBatch(urls, max_workers)
  \/ \E i \in DOMAIN flows : StartFlow(i)
  \/ \E i \in DOMAIN flows : Collect(i)
  \/ ExtractBatchReturn
  \/ Resume
  \/ clear_cache
  \/ \E i \in DOMAIN flows : Begin(i)
  \/ \E i \in DOMAIN flows : ReadCache(i)
  \/ \E i \in DOMAIN flows : CheckModel(i)
  \/ \E i \in DOMAIN flows : Scrape(i)
  \/ \E i \in DOMAIN flows : Process(i)
  \/ \E i \in DOMAIN flows : Finish(i)

Spec == Init /\ [][Next]_vars

(***************************************************************************)
(* The batch scenario: extract_batch on five URLs with the default pool     *)
(* width; the fetch of the third URL always times out and every other       *)
(* collaborator call succeeds.                                              *)
(***************************************************************************)
\* the default of extract_batch's max_workers
DefaultMaxWorkers == 3

ScenarioEnv ==
  [is_model_available |-> {Ret(PyBool(TRUE))},
   scrape |-> [url \in Urls \cup Range(ScenarioUrls) |->
                 IF url = ScenarioUrls[3]
                   THEN {Raise(Exc("ScrapingError", <<"Timeout while fetching page">>))}
                 ELSE {Ret(ShortPage)}],
   generate |-> {Ret(RichInfo)}]

\* extract_batch(ScenarioUrls) has just submitted its five calls
InitE ==
  /\ env = ScenarioEnv
  /\ cache = <<>>
  /\ call = [op |-> "extract_batch", urls |-> ScenarioUrls, max_workers |-> DefaultMaxWorkers]
  /\ flows = [i \in DOMAIN ScenarioUrls |-> Flow(ScenarioUrls[i], FALSE, "pending")]
  /\ results = [i \in DOMAIN ScenarioUrls |-> None]
  /\ collected = <<>>
  /\ returned = NotReturned
  /\ gen = NoRequest
  /\ fn = NoCallFn

SpecE == InitE /\ [][Next]_vars

\* the steps taken by the threads of the pool and by the thread inside
\* extract: a runnable thread is eventually scheduled, and every call to a
\* collaborator comes back
Work ==
  \E i \in DOMAIN flows :
    \/ StartFlow(i)
    \/ Begin(i)
    \/ ReadCache(i)
    \/ CheckModel(i)
    \/ Scrape(i)
    \/ Process(i)
    \/ Finish(i)

FairSpecE == SpecE /\ WF_vars(Work)


(***************************************************************************)
(* The LLM clients: one request to generate_structured_data, attempt by    *)
(* attempt (llm_client.py, anthropic_client.py).                           *)
(***************************************************************************)
\* the largest settings.LLM_RETRY_ATTEMPTS a request is drawn with
MaxRetryAttempts == 3

\* `for attempt in range(3)` in _generate_with_tools and _generate_with_prompt
ToolAttempts == 3
PromptAttempts == 3

\* a custom extraction schema and a result that has its field
PriceSchema == PyDict([price |-> PyStr(30, 30)])
PriceInfo == PyDict([price |-> PyStr(5, 5)])

\* what a backend reply amounts to once it is decoded: the value
\* _parse_json_response gives for the reply text (None when no strategy
\* parses it), in tool-call mode the input of the tool_use block (None when
\* the reply has no such block)
BackendReplies ==
  {Ret(RichInfo), Ret(WeakInfo), Ret(PriceInfo), Ret(EmptyDict), Ret(PyList(2)), Ret(None)}

\* the exceptions the backend transport raises, by the text they carry
TransportError == Exc("Exception", <<"connection", "reset">>)
AuthText == Exc("Exception", <<"authentication", "error">>)
RateText == Exc("Exception", <<"rate", "limit", "exceeded">>)
ModelText == Exc("Exception", <<"model", "not found">>)

\* a backend that can show every behaviour on every call
AnyBackend ==
  BackendReplies \cup {Raise(TransportError), Raise(AuthText), Raise(RateText), Raise(ModelText)}

\* a backend of which every call fails with authentication-error text
AuthBackend == {Raise(AuthText)}

\* `word in str(e).lower()`
HasWord(e, word) == word \in Range(e.message)

\* OllamaClient._validate_extraction_result, for results whose fields have
\* the expected types
_validate_extraction_result(result, schema) ==
  IF result.t # "dict" THEN FALSE
  ELSE IF Truthy(schema)
    THEN \A key \in DOMAIN schema.items : key \in DOMAIN result.items
  ELSE "summary" \in DOMAIN result.items /\ Truthy(result.items.summary)

\* `if result and self._validate_extraction_result(result, schema)`
Valid(o, schema) ==
  /\ o.kind = "return"
  /\ Truthy(o.value)
  /\ _validate_extraction_result(o.value, schema)

\* ErrorHandler.handle_with_context
handle_with_context(func_name, error) ==
  IF IsSubclass(error.cls, "WebExtractError") THEN error
  ELSE Exc("WebExtractError", <<"Error in", func_name, ":">> \o str(error))

\* the except clause of an attempt of _generate_with_prompt: the typed error
\* it raises for the exception e of attempt number `attempt`, None when the
\* loop goes on.  RateLimitError is not in the tuple of the outer except
\* clause and passes through handle_with_context.
ClassifyError(e, attempt) ==
  IF HasWord(e, "rate") /\ HasWord(e, "limit")
    THEN handle_with_context("generate_structured_data",
                             Exc("RateLimitError", <<"Anthropic rate limit exceeded">>))
  ELSE IF HasWord(e, "authentication") \/ HasWord(e, "api_key")
    THEN Exc("AuthenticationError", <<"Anthropic authentication failed">>)
  ELSE IF HasWord(e, "model") /\ (HasWord(e, "not found") \/ HasWord(e, "invalid"))
    THEN Exc("ModelNotAvailableError", <<"Anthropic model not available">>)
  ELSE IF attempt = PromptAttempts - 1
    THEN Exc("LLMError", <<"Anthropic processing failed after 3 attempts">>)
  ELSE None

\* a dispatch that uses the tool-call mode only when a schema is given
UsesTools_schema_only(schema, custom_prompt) == Truthy(schema)

\* `if schema or not custom_prompt` in AnthropicClient.generate_structured_data
UsesTools(schema, custom_prompt) == Truthy(schema) \/ ~Truthy(custom_prompt)

\* a request generate_structured_data(content, custom_prompt, schema) to the
\* client `client` configured with retry_attempts, on the backend `backend`
Request(client, retry_attempts, content, custom_prompt, schema, backend) ==
  [client |-> client, retry_attempts |-> retry_attempts, content |-> content,
   custom_prompt |-> custom_prompt, schema |-> schema, backend |-> backend,
   pc |-> "start",
   attempt |-> 0,         \* the loop variable of the running loop
   via |-> "none",        \* where _generate_with_prompt was called from
   tool_calls |-> 0,      \* backend calls made in tool-call mode
   text_calls |-> 0,      \* backend calls made in plain-text mode
   failed |-> 0,          \* attempts that did not give a valid value
   last |-> Ret(None),    \* the outcome of the last backend call
   raised |-> None,       \* the last typed error raised inside the client
   how |-> "none",        \* "success", "fallback" or "raise"
   out |-> NotReturned]

Requests ==
  {Request(client, retry_attempts, content, custom_prompt, schema, backend) :
     client \in {"ollama", "anthropic"},
     retry_attempts \in 1..MaxRetryAttempts,
     content \in {PyStr(60, 60), PyStr(5000, 5000)},
     custom_prompt \in {None, PyStr(40, 40)},
     schema \in {None, PriceSchema},
     backend \in {AnyBackend, AuthBackend}}

InitGen ==
  /\ env = AnyEnv
  /\ cache = <<>>
  /\ call = Idle
  /\ flows = <<>>
  /\ results = <<>>
  /\ collected = <<>>
  /\ returned = NotReturned
  /\ gen \in Requests
  /\ fn = NoCallFn

\* the request ends with the value `value`
Success(g, value) == [g EXCEPT !.pc = "done", !.how = "success", !.out = Ret(value)]

\* the request ends by raising the last error instead of the fallback
Fallback_reraising(g, n) ==
  [g EXCEPT !.pc = "done", !.how = "raise", !.out = Raise(g.raised)]

\* the request ends with the safe fallback on content[:n]
Fallback(g, n) ==
  [g EXCEPT !.pc = "done", !.how = "fallback",
            !.out = Ret(_create_safe_fallback(Slice(g.content, n)))]

\* the client is entered: OllamaClient goes to its loop (which is empty for
\* a budget of 0), AnthropicClient chooses its mode
Enter ==
  /\ gen.pc = "start"
  /\ gen' = IF gen.client = "ollama"
              THEN IF gen.retry_attempts = 0 THEN Fallback(gen, PreviewLen)
                   ELSE [gen EXCEPT !.pc = "ollama"]
            ELSE IF UsesTools(gen.schema, gen.custom_prompt)
              THEN [gen EXCEPT !.pc = "tools"]
            ELSE [gen EXCEPT !.pc = "prompt", !.via = "direct"]
  /\ UNCHANGED <<env, cache, call, flows, results, collected, returned, fn>>

\* one iteration of the loop of OllamaClient.generate_structured_data
OllamaAttempt ==
  /\ gen.pc = "ollama"
  /\ \E o \in gen.backend :
       LET g == [gen EXCEPT !.text_calls = @ + 1, !.last = o]
           f == [g EXCEPT !.failed = @ + 1]
       IN  gen' = IF Valid(o, gen.schema) THEN Success(g, o.value)
                  ELSE IF gen.attempt = gen.retry_attempts - 1 THEN Fallback(f, PreviewLen)
                  ELSE [f EXCEPT !.attempt = @ + 1]
  /\ UNCHANGED <<env, cache, call, flows, results, collected, returned, fn>>

\* one iteration of the loop of AnthropicClient._generate_with_tools; after
\* the last one _generate_with_prompt is called (line 200)
ToolAttempt ==
  /\ gen.pc = "tools"
  /\ \E o \in gen.backend :
       LET g == [gen EXCEPT !.tool_calls = @ + 1, !.last = o]
           f == [g EXCEPT !.failed = @ + 1]
       IN  gen' = IF Valid(o, gen.schema) THEN Success(g, o.value)
                  ELSE IF gen.attempt = ToolAttempts - 1
                    THEN [f EXCEPT !.pc = "prompt", !.via = "after_tools", !.attempt = 0]
                  ELSE [f EXCEPT !.attempt = @ + 1]
  /\ UNCHANGED <<env, cache, call, flows, results, collected, returned, fn>>

\* one iteration of the loop of AnthropicClient._generate_with_prompt.  A
\* typed error leaves _generate_with_prompt: raised from the call at line
\* 200 it is caught at line 202 and _generate_with_prompt is called again
\* (line 204); otherwise it is caught in generate_structured_data (line 83),
\* which returns the safe fallback.
PromptAttempt ==
  /\ gen.pc = "prompt"
  /\ \E o \in gen.backend :
       LET g == [gen EXCEPT !.text_calls = @ + 1, !.last = o]
           f == [g EXCEPT !.failed = @ + 1]
           typed == IF o.kind = "raise" THEN ClassifyError(o.value, gen.attempt) ELSE None
       IN  gen' = IF Valid(o, gen.schema) THEN Success(g, o.value)
                  ELSE IF o.kind = "return"
                    THEN IF gen.attempt = PromptAttempts - 1 THEN Fallback(f, PreviewLen)
                         ELSE [f EXCEPT !.attempt = @ + 1]
                  ELSE IF typed = None THEN [f EXCEPT !.attempt = @ + 1]
                  ELSE IF gen.via = "after_tools"
                    THEN [f EXCEPT !.raised = typed, !.via = "handler", !.attempt = 0]
                  ELSE Fallback([f EXCEPT !.raised = typed], AnthropicPreviewLen)
  /\ UNCHANGED <<env, cache, call, flows, results, collected, returned, fn>>

NextGen ==
  \/ Enter
  \/ OllamaAttempt
  \/ ToolAttempt
  \/ PromptAttempt

SpecGen == InitGen /\ [][NextGen]_vars

\* every call of the backend comes back, and the client goes on
FairSpecGen == SpecGen /\ WF_vars(NextGen)

(***************************************************************************)
(* Properties.                                                             *)
(***************************************************************************)
RecordFields == {"url", "extracted_at", "content", "structured_info", "confidence"}

\* v is a StructuredData record
IsRecord(v) == DOMAIN v = RecordFields

\* the invocations that have left extract
Done == {i \in DOMAIN flows : flows[i].pc = "done"}

\* the collaborators an invocation can call
Collaborators == {"is_model_available", "scrape", "generate_structured_data",
                  "calculate_confidence"}

\* the token sequence m occurs in the token sequence s
Contains(s, m) ==
  \E k \in 0..(Len(s) - Len(m)) : SubSeq(s, k + 1, k + Len(m)) = m

\* the text of structured_info.error of a record, <<>> when it has none
ErrorText(rec) ==
  IF rec.structured_info.t = "dict" /\ "error" \in DOMAIN rec.structured_info.items
    THEN rec.structured_info.items.error.text
  ELSE <<>>

MissingSchemeOrHost(url) ==
  /\ ~urlparse(url).raises
  /\ urlparse(url).scheme = "" \/ urlparse(url).netloc = ""

\* C3: a URL without scheme or without host is rejected in the first step of
\* extract with the typed validation error: that step ends the invocation,
\* leaves the cache as it is, and the invocation has consulted neither the
\* cache nor any collaborator.
C3_InvalidUrlStep ==
  \A i \in DOMAIN flows :
    (/\ flows[i].pc = "begin"
     /\ MissingSchemeOrHost(flows[i].url)
     /\ i \in DOMAIN flows'
     /\ flows'[i] # flows[i]) =>
      /\ flows'[i].pc = "done"
      /\ flows'[i].calls = {}
      /\ cache' = cache
      /\ flows'[i].out.kind = "return"
      /\ flows'[i].out.value.confidence.h = 0
      /\ ErrorText(flows'[i].out.value) =
           <<"Invalid URL format:", flows[i].url, "| Error Code:", "ExtractionError">>

Steps(i) == i \in DOMAIN flows /\ i \in DOMAIN flows' /\ flows'[i] # flows[i]

\* C4: with an entry for the URL and force_refresh false, extract goes to
\* the cache, returns exactly the entry and calls no collaborator; with
\* force_refresh true it does not consult the cache and goes on to the
\* pipeline, entry or not.
C4_CacheStep ==
  \A i \in DOMAIN flows :
    Steps(i) =>
      /\ (/\ flows[i].pc = "begin"
          /\ _validate_url(flows[i].url)
          /\ ~flows[i].force_refresh
          /\ flows[i].url \in DOMAIN cache) =>
            /\ flows'[i].pc = "read"
            /\ flows'[i].calls = {"cache"}
      /\ flows[i].pc = "read" =>
            /\ flows[i].url \in DOMAIN cache
            /\ flows'[i].pc = "done"
            /\ flows'[i].out = Ret(cache[flows[i].url])
            /\ flows'[i].calls = {"cache"}
            /\ cache' = cache
      /\ (/\ flows[i].pc = "begin"
          /\ _validate_url(flows[i].url)
          /\ flows[i].force_refresh) =>
            /\ flows'[i].pc = "avail"
            /\ flows'[i].calls = {}

C4_CacheHitOrRefresh ==
  /\ [][C4_CacheStep]_vars
  /\ [](\A i \in Done :
          (flows[i].force_refresh /\ _validate_url(flows[i].url)) =>
            /\ "cache" \notin flows[i].calls
            /\ "is_model_available" \in flows[i].calls)

\* an invocation without force_refresh has returned the entry of its URL
\* and has called nothing
C4_Witness ==
  \E i \in Done :
    /\ ~flows[i].force_refresh
    /\ flows[i].calls = {"cache"}
    /\ flows[i].url \in DOMAIN cache
    /\ flows[i].out = Ret(cache[flows[i].url])

\* C5: every cache entry under key u is a record with url u and a
\* confidence strictly above 0.3; no record at or below 0.3 and no record
\* built from a caught error is in the cache.
C5_CacheHoldsGoodRecords ==
  \A u \in DOMAIN cache :
    /\ IsRecord(cache[u])
    /\ cache[u].url = u
    /\ Exceeds(cache[u].confidence, CacheThreshold)
    /\ ErrorText(cache[u]) = <<>>
    /\ cache[u].content.main_content.t = "str"

\* one URL's record is cached, another invocation has returned a record of
\* confidence exactly 0.3 and its URL has no entry
C5_Witness ==
  /\ DOMAIN cache # {}
  /\ \E i \in Done :
       /\ flows[i].out.value.confidence = [h |-> CacheThreshold, r |-> 0]
       /\ flows[i].url \notin DOMAIN cache

\* C6: entries leave the cache only in clear_cache, which empties it.  A
\* step of extract keeps every entry of another URL, deletes nothing, and
\* changes the entry of its own URL only when it ends the pipeline with a
\* confidence above 0.3: then the entry is the new record, whole.
C6_CacheStep ==
  /\ (\E u \in DOMAIN cache : u \notin DOMAIN cache') =>
        /\ call.op = "idle"
        /\ cache' = <<>>
        /\ UNCHANGED <<call, flows, results, collected, returned>>
  /\ (call.op = "idle" /\ call' = call) => cache' = <<>>
  /\ \A i \in DOMAIN flows :
       Steps(i) =>
         /\ DOMAIN cache \subseteq DOMAIN cache'
         /\ \A u \in DOMAIN cache : u # flows[i].url => cache'[u] = cache[u]
         /\ IF /\ flows[i].pc = "score"
               /\ flows'[i].out.kind = "return"
               /\ Exceeds(flows'[i].out.value.confidence, CacheThreshold)
              THEN /\ DOMAIN cache' = DOMAIN cache \cup {flows[i].url}
                   /\ cache'[flows[i].url] = flows'[i].out.value
            ELSE cache' = cache

C6_OnlyClearRemoves == [][C6_CacheStep]_vars

\* a forced re-extraction of a cached URL ran the pipeline, ended at or
\* below 0.3, and the entry is not the record it returned
C6_Witness ==
  \E i \in Done :
    /\ flows[i].force_refresh
    /\ "is_model_available" \in flows[i].calls
    /\ flows[i].url \in DOMAIN cache
    /\ ~Exceeds(flows[i].out.value.confidence, CacheThreshold)
    /\ cache[flows[i].url] # flows[i].out.value

\* C7: extract_batch returns only when every invocation has ended, and the
\* list it returns has one slot per URL, slot i holding what extract
\* returned for urls[i].
C7_ReturnStep ==
  (call.op = "extract_batch" /\ call'.op = "returned") =>
    /\ DOMAIN flows = 1..Len(call.urls)
    /\ \A i \in DOMAIN flows : flows[i].pc = "done" /\ flows[i].url = call.urls[i]
    /\ returned'.kind = "list"
    /\ Len(returned'.value) = Len(call.urls)
    /\ \A i \in 1..Len(call.urls) :
         /\ returned'.value[i] = flows[i].out.value
         /\ returned'.value[i].url = call.urls[i]

C7_BatchOrder ==
  /\ [][C7_ReturnStep]_vars
  /\ [](call.op = "extract_batch" => returned = NotReturned)

\* a batch has returned whose second invocation was collected before its
\* first, with a failure in one slot and a success in the other
C7_Witness ==
  /\ call.op = "returned"
  /\ returned.kind = "list"
  /\ Len(collected) > 1
  /\ collected[1] > collected[2]
  /\ \E i, j \in DOMAIN returned.value :
       /\ ErrorText(returned.value[i]) # <<>>
       /\ ErrorText(returned.value[j]) = <<>>

\* C8: in the scenario the batch returns four successful records and None
\* at the index of the third URL.
C8_NullSlot ==
  (returned.kind = "list" /\ call.urls = ScenarioUrls) =>
    /\ Len(returned.value) = Len(ScenarioUrls)
    /\ returned.value[3] = None
    /\ \A i \in DOMAIN ScenarioUrls \ {3} :
         /\ returned.value[i] # None
         /\ returned.value[i].url = ScenarioUrls[i]
         /\ ErrorText(returned.value[i]) = <<>>

\* C9: while extract_batch runs, the invocations in progress never
\* outnumber max_workers; an invocation is started once, from the queue, and
\* never again; every submitted invocation ends.
C9_StartStep ==
  \A i \in DOMAIN flows :
    Steps(i) =>
      /\ flows'[i].pc # "pending"
      /\ flows'[i].pc = "begin" =>
           /\ flows[i].pc = "pending"
           /\ Cardinality(Running) < call.max_workers

C9_BoundedPool ==
  /\ [](call.op = "extract_batch" => Cardinality(Running) <= call.max_workers)
  /\ [][C9_StartStep]_vars
  /\ \A i \in 1..Len(ScenarioUrls) :
       (call.op = "extract_batch" /\ i \in DOMAIN flows /\ flows[i].pc = "pending")
         ~> (i \in DOMAIN flows /\ flows[i].pc = "done")

\* the pool of default width is full and a submitted call waits
C9_Witness ==
  /\ call.op = "extract_batch"
  /\ call.max_workers = DefaultMaxWorkers
  /\ Cardinality(Running) = call.max_workers
  /\ \E i \in DOMAIN flows : flows[i].pc = "pending"

\* a record with every field set
Complete(rec) ==
  /\ IsRecord(rec)
  /\ rec.content # None
  /\ rec.structured_info # None
  /\ rec.confidence \in [h : min_score..max_score, r : {0, 1}]

\* C10: every cache entry is a whole record for its key, put there in one
\* step by one invocation for that URL, which returned that very record; the
\* step leaves the entries of other URLs as they were; an invocation served
\* from the cache returns a whole record.
C10_WriteStep ==
  \A u \in DOMAIN cache' :
    (u \notin DOMAIN cache \/ cache'[u] # cache[u]) =>
      /\ \E i \in DOMAIN flows :
           /\ Steps(i)
           /\ flows[i].url = u
           /\ flows[i].pc = "score"
           /\ flows'[i].out = Ret(cache'[u])
           /\ \A j \in DOMAIN flows \ {i} : flows'[j] = flows[j]
      /\ \A v \in DOMAIN cache \ {u} : v \in DOMAIN cache' /\ cache'[v] = cache[v]

C10_WholeEntries ==
  /\ [](\A u \in DOMAIN cache : Complete(cache[u]) /\ cache[u].url = u)
  /\ [](\A i \in Done :
          "cache" \in flows[i].calls /\ Collaborators \cap flows[i].calls = {} =>
            /\ flows[i].out.kind = "return"
            /\ Complete(flows[i].out.value)
            /\ flows[i].out.value.url = flows[i].url)
  /\ [][C10_WriteStep]_vars

\* two invocations of one batch ran the pipeline for the same URL and
\* returned different cacheable records; the entry is the second one's
C10_Witness ==
  \E i, j \in Done :
    /\ i < j
    /\ flows[i].url = flows[j].url
    /\ "calculate_confidence" \in flows[i].calls
    /\ "calculate_confidence" \in flows[j].calls
    /\ Exceeds(flows[i].out.value.confidence, CacheThreshold)
    /\ Exceeds(flows[j].out.value.confidence, CacheThreshold)
    /\ flows[i].out.value # flows[j].out.value
    /\ cache[flows[i].url] = flows[j].out.value

(***************************************************************************)
(* Properties of the LLM clients.                                          *)
(***************************************************************************)
\* the backend calls a request has made so far
BackendCalls(g) == g.tool_calls + g.text_calls

\* C11: one generate request makes at most retry_attempts backend calls in
\* total, and a request that returns an attempt's value returns the value of
\* its last backend call, which parsed and validated: no call follows it.
C11_CallBudget ==
  /\ BackendCalls(gen) <= gen.retry_attempts
  /\ gen.how = "success" =>
       /\ Valid(gen.last, gen.schema)
       /\ gen.out = Ret(gen.last.value)

\* C12: a request that has ended has ended in one of two outcomes: Success,
\* the validated value of an attempt, or ExhaustedFallback, the safe
\* fallback with extraction_error true, returned only when every attempt of
\* the budget was made and failed; no failure leaves the client as an
\* exception.
C12_SuccessOrExhaustedFallback ==
  gen.pc = "done" =>
    /\ gen.how \in {"success", "fallback"}
    /\ gen.out.kind = "return"
    /\ gen.how = "success" => Valid(gen.last, gen.schema)
    /\ gen.how = "fallback" =>
         /\ gen.out.value.items.extraction_error = PyBool(TRUE)
         /\ gen.failed = BackendCalls(gen)
         /\ gen.failed >= gen.retry_attempts

\* C13 as stated: every request to the tool-capable client starts in
\* tool-call mode, and a plain-text call is made only after three tool-call
\* attempts that each failed.
C13_AlwaysToolModeFirst ==
  gen.client = "anthropic" =>
    /\ gen.pc \notin {"start", "tools"} => gen.tool_calls > 0
    /\ gen.text_calls > 0 => gen.tool_calls = ToolAttempts /\ gen.failed >= ToolAttempts

\* C13, amended: a request to the tool-capable client that has a schema or
\* no custom prompt starts in tool-call mode, makes a plain-text call only
\* after three tool-call attempts that each failed, and returns a valid
\* tool-call payload without any plain-text call; a request with a custom
\* prompt and no schema makes plain-text calls only.
C13_ToolModeUnlessCustomPrompt ==
  gen.client = "anthropic" =>
    IF Truthy(gen.schema) \/ ~Truthy(gen.custom_prompt)
      THEN /\ gen.pc \notin {"start", "tools"} => gen.tool_calls > 0
           /\ gen.pc = "tools" => gen.text_calls = 0
           /\ gen.text_calls > 0 =>
                gen.tool_calls = ToolAttempts /\ gen.failed >= ToolAttempts
           /\ gen.how = "success" /\ gen.tool_calls < ToolAttempts =>
                /\ gen.text_calls = 0
                /\ gen.failed = gen.tool_calls - 1
                /\ gen.out = Ret(gen.last.value)
      ELSE /\ gen.tool_calls = 0
           /\ gen.pc # "tools"

\* a request without a custom prompt got no valid payload from three
\* tool-call attempts and then a valid value from a plain-text call
C13_Witness ==
  /\ gen.client = "anthropic"
  /\ ~Truthy(gen.custom_prompt)
  /\ gen.how = "success"
  /\ gen.tool_calls = ToolAttempts
  /\ gen.text_calls = 1
  /\ gen.failed = ToolAttempts

\* DataExtractor.extract from its call of the client on: what it returns for
\* the page `page` when generate_structured_data ends as the outcome o
ExtractAfterGenerate(url, page, o, now) ==
  LET r == _process_with_llm(o) IN
  IF r.kind = "return"
    THEN Ret([url |-> url,
              extracted_at |-> now,
              content |-> page,
              structured_info |-> r.value,
              confidence |-> [h |-> calculate_confidence(ConfidenceConfig, page, r.value),
                              r |-> 0]])
  ELSE ExtractExcept(url, r.value, now)

\* C14: when every backend call fails with authentication-error text, the
\* request ends after exactly one backend call by raising a typed
\* authentication error, and extract turns it into a record with confidence
\* 0.0 whose structured_info.error contains the authentication message.
C14_AuthenticationErrorRaised ==
  gen.client = "anthropic" /\ gen.backend = AuthBackend /\ gen.pc = "done" =>
    /\ BackendCalls(gen) = 1
    /\ gen.out.kind = "raise"
    /\ gen.out.value.cls = "AuthenticationError"
    /\ \A url \in Urls, now \in Times :
         LET rec == ExtractAfterGenerate(url, ShortPage, gen.out, now).value
         IN  /\ rec.confidence = [h |-> 0, r |-> 0]
             /\ Contains(ErrorText(rec), <<"Anthropic authentication failed">>)

\* the eight fields of the default extraction structure
DefaultFields == {"summary", "topics", "category", "sentiment", "entities",
                  "key_facts", "important_dates", "statistics"}

\* the entities of a result without any entity
NoEntities ==
  PyDict([people |-> PyList(0), organizations |-> PyList(0), locations |-> PyList(0)])

\* C15 as stated: the safe fallback has the eight default fields, every one
\* of them empty except summary, which holds a truncated preview of the
\* input, and extraction_error set to true.
C15_FallbackAllEmpty ==
  gen.how = "fallback" =>
    LET d == gen.out.value.items IN
    /\ DefaultFields \subseteq DOMAIN d
    /\ \A field \in {"topics", "key_facts", "important_dates", "statistics"} :
         d[field] = PyList(0)
    /\ d.entities = NoEntities
    /\ \A field \in {"category", "sentiment"} : d[field].len = 0
    /\ d.summary.preview.len <= PreviewLen
    /\ d.extraction_error = PyBool(TRUE)

\* C15, amended: the safe fallback has the eight default fields and
\* extraction_error set to true and no other field; its list fields are
\* empty, its entities are three empty lists, its category is "unknown" and
\* its sentiment "neutral"; its summary is a fixed notice, the first 200
\* characters of the input (in AnthropicClient the first 200 or the first
\* 100) and an ellipsis.
C15_FallbackShape ==
  gen.how = "fallback" =>
    LET d == gen.out.value.items IN
    /\ DOMAIN d = DefaultFields \cup {"extraction_error"}
    /\ \A field \in {"topics", "key_facts", "important_dates", "statistics"} :
         d[field] = PyList(0)
    /\ d.entities = NoEntities
    /\ d.category.text = "unknown"
    /\ d.sentiment.text = "neutral"
    /\ \E n \in IF gen.client = "ollama" THEN {PreviewLen}
                ELSE {PreviewLen, AnthropicPreviewLen} :
         d.summary.preview = Slice(gen.content, n)
    /\ d.summary.len = FallbackPrefixLen + d.summary.preview.len + EllipsisLen
    /\ d.extraction_error = PyBool(TRUE)

\* every attempt of the budget of a request with a long content failed, and
\* the fallback holds a truncated preview
C15_Witness ==
  /\ gen.client = "ollama"
  /\ gen.how = "fallback"
  /\ gen.failed = gen.retry_attempts
  /\ gen.content.len > PreviewLen
  /\ gen.out.value.items.summary.preview.len = PreviewLen

(***************************************************************************)
(* The confidence scorer, one call of calculate_confidence at a time.      *)
(***************************************************************************)
\* a key a mapping does not have
Absent == [t |-> "absent"]

\* the mapping with the keys of c whose value is not Absent
MakeDict(c) == PyDict([k \in {f \in DOMAIN c : c[f] # Absent} |-> c[k]])

\* configurations other than the default one: other limits, a title weight
\* that alone exceeds the upper limit
CustomConfigs ==
  {[ConfidenceConfig EXCEPT !.min_score = lo, !.max_score = hi, !.title_weight = w] :
     lo \in {-20, 20}, hi \in {50}, w \in {200}}

\* the contents scored: with and without title and description, main content
\* absent, empty, blank-padded, and on both sides of every length threshold;
\* None stands for a content without the attributes read
ScoredContents ==
  {[title |-> title, description |-> description, main_content |-> main_content,
    links |-> PyList(0), metadata |-> EmptyDict] :
     title \in {None, PyStr(3, 0), PyStr(12, 12)},
     description \in {None, PyStr(20, 20)},
     main_content \in {None, PyStr(0, 0), PyStr(60, 40), PyStr(99, 99), PyStr(100, 100),
                       PyStr(499, 499), PyStr(500, 500), PyStr(1000, 1000),
                       PyStr(1200, 1200)}}
  \cup {None}

\* the structured results scored: every combination of absent, empty and
\* populated fields, with and without the error flags, a summary that has no
\* length, and values that are not mappings
ScoredInfos ==
  {MakeDict([summary |-> summary, topics |-> topics, entities |-> entities,
             key_facts |-> more[1], category |-> more[2],
             error |-> flags[1], extraction_error |-> flags[2]]) :
     summary \in {Absent, PyStr(0, 0), PyStr(19, 19), PyStr(30, 30), PyInt(5)},
     topics \in {Absent, PyList(0), PyList(2)},
     entities \in {Absent, NoEntities,
                   PyDict([people |-> PyList(1), organizations |-> PyList(0),
                           locations |-> PyList(0)])},
     more \in {<<Absent, Absent>>, <<PyList(1), Absent>>, <<PyList(1), PyStr(4, 4)>>},
     flags \in {<<Absent, Absent>>, <<PyMsg(<<"Timeout while fetching page">>), Absent>>,
                <<Absent, PyBool(TRUE)>>}}
  \cup {None, PyList(2)}

\* a call ConfidenceScorer(config).calculate_confidence(content, structured_info)
ScoreCalls ==
  {[op |-> "calculate_confidence", config |-> config, content |-> content,
    structured_info |-> structured_info, out |-> NotReturned] :
     config \in {ConfidenceConfig} \cup CustomConfigs,
     content \in ScoredContents,
     structured_info \in ScoredInfos}

InitScore ==
  /\ env = AnyEnv
  /\ cache = <<>>
  /\ call = Idle
  /\ flows = <<>>
  /\ results = <<>>
  /\ collected = <<>>
  /\ returned = NotReturned
  /\ gen = NoRequest
  /\ fn \in ScoreCalls

\* the call returns
Score ==
  /\ fn.op = "calculate_confidence"
  /\ fn.out.kind = "none"
  /\ fn' = [fn EXCEPT !.out = Ret(calculate_confidence(fn.config, fn.content,
                                                        fn.structured_info))]
  /\ UNCHANGED <<env, cache, call, flows, results, collected, returned, gen>>

NextScore == Score

SpecScore == InitScore /\ [][NextScore]_vars

\* C16: for every content and every structured result calculate_confidence
\* returns a value between 0.0 and 1.0 inclusive under the default
\* configuration and between min_score and max_score under a custom one; a
\* call whose body raises returns min_score.
C16_ConfidenceBounds ==
  fn.out.kind # "none" =>
    /\ fn.out.kind = "return"
    /\ fn.config.min_score <= fn.out.value
    /\ fn.out.value <= fn.config.max_score
    /\ fn.config = ConfidenceConfig => 0 <= fn.out.value /\ fn.out.value <= 100
    /\ ScoringRaises(fn.content, fn.structured_info) => fn.out.value = fn.config.min_score

\* the terms of a call add up to more than max_score, or to less than
\* min_score, and the call returned the limit
C16_Witness ==
  /\ fn.out.kind = "return"
  /\ ~ScoringRaises(fn.content, fn.structured_info)
  /\ \/ /\ fn.config.title_weight > fn.config.max_score
        /\ Truthy(fn.content.title) /\ StripLen(fn.content.title) > 0
        /\ ~HasErrorFlag(fn.structured_info)
        /\ fn.out.value = fn.config.max_score
     \/ /\ fn.config = ConfidenceConfig
        /\ HasErrorFlag(fn.structured_info)
        /\ fn.content.main_content = None
        /\ fn.out.value = 0

\* the terms of the score as the additive model states them, in hundredths
TitleBonus(content) ==
  IF content.title # None /\ content.title.strip > 0 THEN 10 ELSE 0

DescriptionBonus(content) ==
  IF content.description # None /\ content.description.strip > 0 THEN 5 ELSE 0

LengthBonus(content) ==
  LET length == IF content.main_content = None THEN 0 ELSE content.main_content.len
  IN  IF length >= 1000 THEN 20
      ELSE IF length >= 500 THEN 15
      ELSE IF length >= 200 THEN 10
      ELSE IF length >= 100 THEN 5
      ELSE 0

Flagged(info) == "error" \in DOMAIN info.items \/ "extraction_error" \in DOMAIN info.items

StructuredQuality(info) ==
  IF info = EmptyDict \/ Flagged(info) THEN 0
  ELSE 20
       + (IF "summary" \in DOMAIN info.items /\ info.items.summary.len >= 20 THEN 10 ELSE 0)
       + (IF "topics" \in DOMAIN info.items /\ info.items.topics.len > 0 THEN 5 ELSE 0)
       + (IF "entities" \in DOMAIN info.items
             /\ \E k \in DOMAIN info.items.entities.items :
                  info.items.entities.items[k].len > 0
            THEN 5 ELSE 0)
       + (IF Cardinality({k \in DOMAIN info.items :
                            IF k = "entities"
                              THEN DOMAIN info.items[k].items # {}
                            ELSE IF k = "category" THEN info.items[k].strip > 0
                            ELSE info.items[k].len > 0}) >= 4
            THEN 10 ELSE 0)

Penalties(content, info) ==
  (IF Flagged(info) THEN -50 ELSE 0)
  + (IF content.main_content = None \/ content.main_content.strip < 50 THEN -30 ELSE 0)

\* the content and the result of the worked example: 1200 characters of main
\* content, a title and no description; a summary of 30 characters, two
\* topics, no entity
ExampleContent ==
  [title |-> PyStr(12, 12), description |-> None, main_content |-> PyStr(1200, 1200),
   links |-> PyList(0), metadata |-> EmptyDict]

ExampleInfo ==
  PyDict([summary |-> PyStr(30, 30), topics |-> PyList(2), entities |-> NoEntities])

\* C17: under the default configuration the confidence of a content and a
\* mapping is the sum of the base score 0.1, the content quality, the
\* structured quality and the penalties, clamped to [0.0, 1.0]; the worked
\* example scores 0.75.
C17_AdditiveScore ==
  /\ fn.out.kind = "return" /\ fn.config = ConfidenceConfig
       /\ ~ScoringRaises(fn.content, fn.structured_info) =>
       fn.out.value =
         Max(0, Min(100, 10
                         + (TitleBonus(fn.content) + DescriptionBonus(fn.content)
                            + LengthBonus(fn.content))
                         + StructuredQuality(fn.structured_info)
                         + Penalties(fn.content, fn.structured_info)))
  /\ fn.out.kind = "return" /\ fn.config = ConfidenceConfig
       /\ fn.content = ExampleContent /\ fn.structured_info = ExampleInfo =>
       fn.out.value = 75

\* the worked example was scored
C17_Witness ==
  /\ fn.out.kind = "return"
  /\ fn.config = ConfidenceConfig
  /\ fn.content = ExampleContent
  /\ fn.structured_info = ExampleInfo
  /\ fn.out.value = 75

(***************************************************************************)
(* JSONParser: one call of parse_response at a time.  A text is described  *)
(* by what the parser looks at: whether it is blank, the prose and the     *)
(* code fence around its JSON document, and the document itself.           *)
(***************************************************************************)
\* the nesting depth at which CPython's json.loads raises RecursionError,
\* and the longest integer literal it converts (sys.set_int_max_str_digits)
RecursionLimit == 1000
MaxDigits == 4300

\* a document: an object or an array nested to `depth` (objects in objects,
\* arrays in arrays), a scalar, null, or no JSON at all ("prose"); its
\* longest integer literal has `digits` digits; the defect of an object is a
\* trailing comma in the outermost object ("outer"), unquoted keys in every
\* object ("all") or a text that ends before any closing brace
\* ("truncated")
Doc(kind, depth, defect, digits) ==
  [kind |-> kind, depth |-> depth, defect |-> defect, digits |-> digits]

NotJson == Doc("prose", 0, "none", 0)

Docs ==
  {Doc("object", depth, defect, digits) :
     depth \in {1, 2, RecursionLimit},
     defect \in {"none", "outer", "all", "truncated"},
     digits \in {1, MaxDigits + 1}}
  \cup {Doc("array", depth, "none", digits) :
          depth \in {1, RecursionLimit}, digits \in {1, MaxDigits + 1}}
  \cup {Doc("scalar", 0, "none", digits) : digits \in {1, MaxDigits + 1}}
  \cup {Doc("null", 0, "none", 0), NotJson}

\* the texts parsed: empty or whitespace only, or a document with or without
\* prose before or after it and with or without a code fence around it
Texts ==
  {[blank |-> TRUE, prose |-> "none", fence |-> "none", doc |-> NotJson]}
  \cup {[blank |-> FALSE, prose |-> prose, fence |-> fence, doc |-> doc] :
          prose \in {"none", "lead", "trail"},
          fence \in {"none", "json", "plain"},
          doc \in Docs}

\* the value of a well-formed document
JsonValue(doc) ==
  CASE doc.kind = "object" -> [t |-> "dict", depth |-> doc.depth]
    [] doc.kind = "array" -> [t |-> "list", depth |-> doc.depth]
    [] doc.kind = "scalar" -> [t |-> "int", digits |-> doc.digits]
    [] OTHER -> None

\* json.loads: unquoted keys fail at the first key; otherwise the scanner
\* descends and raises RecursionError at the recursion limit, converts the
\* integer literals, and meets a trailing comma or the end of the text last
json_loads(doc) ==
  IF doc.kind = "prose" \/ doc.defect = "all"
    THEN Raise(Exc("JSONDecodeError", <<"Expecting value">>))
  ELSE IF doc.depth >= RecursionLimit
    THEN Raise(Exc("RecursionError", <<"maximum recursion depth exceeded">>))
  ELSE IF doc.digits > MaxDigits
    THEN Raise(Exc("ValueError", <<"Exceeds the limit for integer string conversion">>))
  ELSE IF doc.defect # "none"
    THEN Raise(Exc("JSONDecodeError", <<"Expecting property name">>))
  ELSE Ret(JsonValue(doc))

\* JSONParser._try_direct_parse
_try_direct_parse(doc) ==
  LET o == json_loads(doc)
  IN  IF o.kind = "raise" /\ o.value.cls = "JSONDecodeError" THEN Ret(None) ELSE o

\* `result is not None`, or the call raised
Yields(o) == o.kind = "raise" \/ o.value.t # "null"

\* the loop `for candidate in candidates: result = self._try_direct_parse(
\* candidate); if result is not None: return result` followed by
\* `return None`
FirstYield(candidates) ==
  LET hits == {i \in DOMAIN candidates : Yields(_try_direct_parse(candidates[i]))}
  IN  IF hits = {} THEN Ret(None)
      ELSE _try_direct_parse(candidates[CHOOSE i \in hits : \A j \in hits : i <= j])

\* text.strip() as a document: the text itself is JSON only without prose
\* and fence
Stripped(text) ==
  IF text.prose = "none" /\ text.fence = "none" THEN text.doc ELSE NotJson

\* JSONParser._extract_from_markdown: the groups of the patterns that match.
\* A ```json fence matches the first, third and fourth pattern (the group of
\* the fourth starts with the word json), a plain fence the second and the
\* fourth.
_extract_from_markdown(text) ==
  FirstYield(CASE text.fence = "json" -> <<text.doc, text.doc, NotJson>>
               [] text.fence = "plain" -> <<text.doc, text.doc>>
               [] OTHER -> <<>>)

\* JSONParser._extract_balanced_json for the i-th opening brace: the i-th
\* object from the outside, None (here NotJson, which parses to None) when
\* no brace closes it
_extract_balanced_json(doc, i) ==
  IF doc.defect = "truncated" THEN NotJson
  ELSE Doc("object", doc.depth - i + 1,
           IF doc.defect = "outer" /\ i > 1 THEN "none" ELSE doc.defect,
           doc.digits)

\* JSONParser._extract_with_bracket_matching: the opening braces are those
\* of the objects of the document
_extract_with_bracket_matching(text) ==
  IF text.doc.kind # "object" THEN Ret(None)
  ELSE FirstYield([i \in 1..text.doc.depth |-> _extract_balanced_json(text.doc, i)])

\* JSONParser._repair_json on the candidate of _find_json_candidates for the
\* i-th opening brace, which runs to the last closing brace: the repaired
\* outermost object for the first, an object followed by surplus closing
\* braces for the others
_repair_json(doc, i) ==
  IF i = 1 THEN [doc EXCEPT !.defect = "none"] ELSE NotJson

\* JSONParser._extract_with_repair
_extract_with_repair(text) ==
  IF text.doc.kind # "object" \/ text.doc.defect = "truncated" THEN Ret(None)
  ELSE FirstYield([i \in 1..text.doc.depth |-> _repair_json(text.doc, i)])

\* an outcome and the strategy that gave it
By(o, strategy) == [kind |-> o.kind, value |-> o.value, by |-> strategy]

\* JSONParser.parse_response
parse_response(text) ==
  IF text.blank THEN By(Ret(None), "blank")
  ELSE LET direct == _try_direct_parse(Stripped(text)) IN
       IF Yields(direct) THEN By(direct, "direct")
       ELSE LET markdown == _extract_from_markdown(text) IN
       IF Yields(markdown) THEN By(markdown, "markdown")
       ELSE LET bracket == _extract_with_bracket_matching(text) IN
       IF Yields(bracket) THEN By(bracket, "bracket")
       ELSE LET repair == _extract_with_repair(text) IN
       IF Yields(repair) THEN By(repair, "repair")
       ELSE By(Ret(None), "none")

InitParse ==
  /\ env = AnyEnv
  /\ cache = <<>>
  /\ call = Idle
  /\ flows = <<>>
  /\ results = <<>>
  /\ collected = <<>>
  /\ returned = NotReturned
  /\ gen = NoRequest
  /\ fn \in {[op |-> "parse_response", text |-> text, out |-> By(NotReturned, "none")] :
               text \in Texts}

\* the call returns or raises
Parse ==
  /\ fn.op = "parse_response"
  /\ fn.out.kind = "none"
  /\ fn' = [fn EXCEPT !.out = parse_response(fn.text)]
  /\ UNCHANGED <<env, cache, call, flows, results, collected, returned, gen>>

NextParse == Parse

SpecParse == InitParse /\ [][NextParse]_vars

\* C18: a call of parse_response that has ended has returned, never raised;
\* it returned the value of the first of direct parse, fenced-block
\* extraction, bracket matching and repair that yields one, and null when
\* none of them does or the text is empty or whitespace only.
C18_ParseNeverRaises ==
  fn.out.kind # "none" =>
    /\ fn.out.kind = "return"
    /\ fn.text.blank => fn.out.value = None
    /\ fn.out.by \in {"blank", "none"} <=> fn.out.value = None
    /\ fn.out.by = "markdown" => ~Yields(_try_direct_parse(Stripped(fn.text)))
    /\ fn.out.by = "bracket" => ~Yields(_extract_from_markdown(fn.text))
    /\ fn.out.by = "repair" => ~Yields(_extract_with_bracket_matching(fn.text))

(***************************************************************************)
(* JSONValidator: one call of validate_and_fix at a time.                  *)
(***************************************************************************)
\* required_fields of _validate_default_structure: the type expected of
\* each of the eight fields
required_fields ==
  [summary |-> "str", topics |-> "list", category |-> "str", sentiment |-> "str",
   entities |-> "dict", key_facts |-> "list", important_dates |-> "list",
   statistics |-> "list"]

\* the value inserted for a missing field of the expected type
DefaultOf(expected_type) ==
  CASE expected_type = "str" -> PyStr(0, 0)
    [] expected_type = "list" -> PyList(0)
    [] OTHER -> EmptyDict

\* the loop body wrapping every string of a list field, the empty one too
FixField_wraps_empty(data, field) ==
  LET expected_type == required_fields[field] IN
  IF field \notin DOMAIN data.items
    THEN [value |-> DefaultOf(expected_type), ok |-> FALSE]
  ELSE LET value == data.items[field] IN
       IF value.t = expected_type THEN [value |-> value, ok |-> TRUE]
       ELSE IF expected_type = "list" /\ value.t = "str"
         THEN [value |-> PyList(1), ok |-> TRUE]
       ELSE IF expected_type = "str" /\ value.t = "null"
         THEN [value |-> PyStr(0, 0), ok |-> TRUE]
       ELSE IF expected_type = "dict"
         THEN [value |-> EmptyDict, ok |-> TRUE]
       ELSE [value |-> value, ok |-> FALSE]

\* the body of the loop over required_fields for one field: the value the
\* field has afterwards and whether is_valid survives it
FixField(data, field) ==
  LET expected_type == required_fields[field] IN
  IF field \notin DOMAIN data.items
    THEN [value |-> DefaultOf(expected_type), ok |-> FALSE]
  ELSE LET value == data.items[field] IN
       IF value.t = expected_type THEN [value |-> value, ok |-> TRUE]
       ELSE IF expected_type = "list" /\ value.t = "str"
         THEN [value |-> IF Truthy(value) THEN PyList(1) ELSE PyList(0), ok |-> TRUE]
       ELSE IF expected_type = "str" /\ value.t = "null"
         THEN [value |-> PyStr(0, 0), ok |-> TRUE]
       ELSE IF expected_type = "dict"
         THEN [value |-> EmptyDict, ok |-> TRUE]
       ELSE [value |-> value, ok |-> FALSE]

\* the entities block: people, organizations and locations are set to []
\* where they are missing or not lists; other keys are kept
FixEntities(entities) ==
  PyDict([k \in DOMAIN entities.items \cup {"people", "organizations", "locations"} |->
            IF k \in {"people", "organizations", "locations"}
              THEN IF k \in DOMAIN entities.items /\ entities.items[k].t = "list"
                     THEN entities.items[k] ELSE PyList(0)
            ELSE entities.items[k]])

\* _validate_default_structure that inserts the missing fields and still
\* reports the data valid
_validate_default_structure_lenient(data) ==
  [is_valid |-> \A field \in DOMAIN required_fields :
                  field \notin DOMAIN data.items \/ FixField(data, field).ok,
   fixed_data |->
     PyDict([k \in DOMAIN data.items \cup DOMAIN required_fields |->
               IF k \notin DOMAIN required_fields THEN data.items[k]
               ELSE IF k = "entities" THEN FixEntities(FixField(data, k).value)
               ELSE FixField(data, k).value])]

\* JSONValidator._validate_default_structure
_validate_default_structure(data) ==
  [is_valid |-> \A field \in DOMAIN required_fields : FixField(data, field).ok,
   fixed_data |->
     PyDict([k \in DOMAIN data.items \cup DOMAIN required_fields |->
               IF k \notin DOMAIN required_fields THEN data.items[k]
               ELSE IF k = "entities" THEN FixEntities(FixField(data, k).value)
               ELSE FixField(data, k).value])]

\* JSONValidator._validate_against_schema; the list schema["required"] is
\* the set of its names
JSONValidator_validate_against_schema(data, schema) ==
  LET required == IF "required" \in DOMAIN schema.items THEN schema.items.required ELSE {}
  IN  [is_valid |-> required \subseteq DOMAIN data.items,
       fixed_data |-> PyDict([k \in DOMAIN data.items \cup required |->
                                IF k \in DOMAIN data.items THEN data.items[k] ELSE None])]

\* JSONValidator.validate_and_fix
validate_and_fix(data, schema) ==
  IF data.t # "dict" THEN Ret([is_valid |-> FALSE, fixed_data |-> EmptyDict])
  ELSE IF Truthy(schema) THEN Ret(JSONValidator_validate_against_schema(data, schema))
  ELSE Ret(_validate_default_structure(data))

\* the data validated: every field absent, of its type, or of another type
\* that the loop fixes or cannot fix; an extra key; values that are not
\* mappings
ValidatedData ==
  {MakeDict([summary |-> summary, topics |-> topics, category |-> category,
             sentiment |-> sentiment, entities |-> entities, key_facts |-> key_facts,
             important_dates |-> important_dates, statistics |-> statistics,
             price |-> price]) :
     summary \in {Absent, PyStr(30, 30), None, PyInt(5)},
     topics \in {Absent, PyList(2), PyStr(4, 4), None},
     category \in {Absent, PyStr(4, 4), PyList(1)},
     sentiment \in {Absent, PyStr(7, 7)},
     entities \in {Absent, EmptyDict, PyList(1),
                   PyDict([people |-> PyList(1), organizations |-> PyStr(4, 4)]),
                   PyDict([people |-> PyList(1), organizations |-> PyList(0),
                           locations |-> PyList(0), products |-> PyList(1)])},
     key_facts \in {Absent, PyList(1), PyStr(0, 0)},
     important_dates \in {Absent, PyList(0)},
     statistics \in {Absent, PyList(0)},
     price \in {Absent, PyStr(5, 5)}}
  \cup {None, PyList(2), PyStr(30, 30)}

\* a schema that requires a price
RequiredPriceSchema == PyDict([required |-> {"price"}])

InitValidate ==
  /\ env = AnyEnv
  /\ cache = <<>>
  /\ call = Idle
  /\ flows = <<>>
  /\ results = <<>>
  /\ collected = <<>>
  /\ returned = NotReturned
  /\ gen = NoRequest
  /\ fn \in {[op |-> "validate_and_fix", data |-> data, schema |-> schema,
              out |-> NotReturned] :
               data \in ValidatedData, schema \in {None, EmptyDict, RequiredPriceSchema}}

\* the call returns
Validate ==
  /\ fn.op = "validate_and_fix"
  /\ fn.out.kind = "none"
  /\ fn' = [fn EXCEPT !.out = validate_and_fix(fn.data, fn.schema)]
  /\ UNCHANGED <<env, cache, call, flows, results, collected, returned, gen>>

NextValidate == Validate

SpecValidate == InitValidate /\ [][NextValidate]_vars

\* the eight defaults: empty strings, empty lists, entities of three empty
\* lists
EightDefaults ==
  PyDict([summary |-> PyStr(0, 0), topics |-> PyList(0), category |-> PyStr(0, 0),
          sentiment |-> PyStr(0, 0), entities |-> NoEntities, key_facts |-> PyList(0),
          important_dates |-> PyList(0), statistics |-> PyList(0)])

\* C19: a call of validate_and_fix without a schema never raises; for a
\* mapping the fixed value has all eight default fields, a missing one
\* inserted as "", [] or (for entities) the three empty lists, and its
\* entities hold people, organizations and locations as lists; is_valid is
\* false when one of the eight fields was missing; ({}, None) gives false
\* and the eight empty defaults; a value that is not a mapping gives
\* (false, {}).
C19_ValidateAndFixTotal ==
  fn.out.kind # "none" /\ ~Truthy(fn.schema) =>
    /\ fn.out.kind = "return"
    /\ LET is_valid == fn.out.value.is_valid
           fixed == fn.out.value.fixed_data
       IN  IF fn.data.t # "dict" THEN ~is_valid /\ fixed = EmptyDict
           ELSE /\ DefaultFields \subseteq DOMAIN fixed.items
                /\ \A field \in DefaultFields \ DOMAIN fn.data.items :
                     /\ ~is_valid
                     /\ fixed.items[field] =
                          IF field = "entities" THEN NoEntities
                          ELSE IF field \in {"summary", "category", "sentiment"}
                            THEN PyStr(0, 0)
                          ELSE PyList(0)
                /\ fixed.items.entities.t = "dict"
                /\ \A k \in {"people", "organizations", "locations"} :
                     /\ k \in DOMAIN fixed.items.entities.items
                     /\ fixed.items.entities.items[k].t = "list"
                /\ fn.data = EmptyDict => ~is_valid /\ fixed = EightDefaults

\* validate_and_fix({}, None) has returned
C19_Witness ==
  /\ fn.op = "validate_and_fix"
  /\ fn.out.kind = "return"
  /\ fn.data = EmptyDict
  /\ fn.schema = None
  /\ fn.out.value.fixed_data = EightDefaults

(***************************************************************************)
(* ContentExtractor: one call of extract_content at a time.  A soup is     *)
(* described by the elements the strategies visit, in the order they visit *)
(* them, each with the length of its cleaned text.                         *)
(***************************************************************************)
\* the default of scraping.max_content_length
max_content_length == 10000

\* the most elements of a kind a soup is drawn with
MaxElements == 2

\* the length a candidate of strategy 1 must exceed, the length below which
\* strategy 2 runs
MinCandidateLen == 50
MinSemanticLen == 100

\* the scraping configurations: the default limit and a small one
ScrapingConfigs ==
  {[max_content_length |-> max_content_length], [max_content_length |-> MinSemanticLen]}

\* the element of a soup whose cleaned text has n characters
Element(n) == [cleaned |-> n]

\* the semantic elements (main, article, content classes and ids)
SemanticElements ==
  {Element(n) : n \in {0, 60, 120, max_content_length, max_content_length + 1}}

\* the containers (div, section, article, main): the length of the raw text,
\* the numbers of paragraphs, headings, unwanted elements, links and words,
\* and the length of the cleaned text
Containers ==
  {[text_len |-> shape[1], paragraphs |-> shape[2], headings |-> shape[3],
    unwanted |-> shape[4], links |-> shape[5], words |-> shape[6], cleaned |-> cleaned] :
     shape \in {<<120, 2, 1, 0, 0, 20>>,      \* text with paragraphs
                <<60, 0, 0, 1, 8, 10>>,       \* a navigation block
                <<12000, 9, 0, 0, 400, 2000>>},  \* a long list of links
     cleaned \in {60, max_content_length, max_content_length + 1}}

SeqsUpTo(S, n) == UNION {[1..k -> S] : k \in 0..n}

Soups ==
  {[semantic |-> semantic, containers |-> containers, body |-> body] :
     semantic \in SeqsUpTo(SemanticElements, MaxElements),
     containers \in SeqsUpTo(Containers, MaxElements),
     body \in {0, max_content_length, max_content_length + 1}}

ContentTooLarge ==
  Raise(Exc("ContentTooLargeError", <<"Content exceeds maximum length limit">>))

\* _clean_text_from_element cutting the text to the limit
_clean_text_from_element_truncating(config, element) ==
  Ret(PyStr(Min(element.cleaned, config.max_content_length),
            Min(element.cleaned, config.max_content_length)))

\* ContentExtractor._clean_text_from_element
_clean_text_from_element(config, element) ==
  IF element.cleaned > config.max_content_length THEN ContentTooLarge
  ELSE Ret(PyStr(element.cleaned, element.cleaned))

\* the semantic pass keeping the candidates of 50 characters too
_extract_semantic_content_at_least(config, soup) ==
  LET cleaned == [i \in DOMAIN soup.semantic |->
                    _clean_text_from_element(config, soup.semantic[i])]
      raising == {i \in DOMAIN cleaned : cleaned[i].kind = "raise"}
      candidates == {i \in DOMAIN cleaned : cleaned[i].value.len >= MinCandidateLen}
  IN  IF raising # {} THEN cleaned[CHOOSE i \in raising : \A j \in raising : i <= j]
      ELSE IF candidates = {} THEN Ret(PyStr(0, 0))
      ELSE cleaned[CHOOSE i \in candidates :
                     \A j \in candidates :
                       \/ cleaned[i].value.len > cleaned[j].value.len
                       \/ cleaned[i].value.len = cleaned[j].value.len /\ i <= j]

\* ContentExtractor._extract_semantic_content: every element is cleaned, the
\* first that is too large ends the call; of the candidates the longest is
\* returned, the first of them among equals (the sort is stable)
_extract_semantic_content(config, soup) ==
  LET cleaned == [i \in DOMAIN soup.semantic |->
                    _clean_text_from_element(config, soup.semantic[i])]
      raising == {i \in DOMAIN cleaned : cleaned[i].kind = "raise"}
      candidates == {i \in DOMAIN cleaned : cleaned[i].value.len > MinCandidateLen}
  IN  IF raising # {} THEN cleaned[CHOOSE i \in raising : \A j \in raising : i <= j]
      ELSE IF candidates = {} THEN Ret(PyStr(0, 0))
      ELSE cleaned[CHOOSE i \in candidates :
                     \A j \in candidates :
                       \/ cleaned[i].value.len > cleaned[j].value.len
                       \/ cleaned[i].value.len = cleaned[j].value.len /\ i <= j]

\* ContentExtractor._score_content_container, in twentieths
_score_content_container(container) ==
  LET score == 2 * container.text_len + 200 * container.paragraphs
               + 100 * container.headings - 400 * container.unwanted
  IN  Max(0, IF 10 * container.links > Max(container.words, 1)
               THEN score \div 2 ELSE score)

\* ContentExtractor._extract_body_text on a body whose filtered text has
\* `body` characters
_extract_body_text(config, body) ==
  IF body > config.max_content_length THEN ContentTooLarge
  ELSE Ret(PyStr(body, body))

\* ContentExtractor._extract_content_blocks
_extract_content_blocks(config, soup) ==
  LET scored == {i \in DOMAIN soup.containers :
                   _score_content_container(soup.containers[i]) > 0}
  IN  IF scored # {}
        THEN LET best == CHOOSE i \in scored :
                           \A j \in scored :
                             \/ _score_content_container(soup.containers[i])
                                  > _score_content_container(soup.containers[j])
                             \/ /\ _score_content_container(soup.containers[i])
                                     = _score_content_container(soup.containers[j])
                                /\ i <= j
             IN  _clean_text_from_element(config, soup.containers[best])
      ELSE _extract_body_text(config, soup.body)

\* ContentExtractor.extract_content
extract_content(config, soup) ==
  LET semantic == _extract_semantic_content(config, soup) IN
  IF semantic.kind = "raise" THEN semantic
  ELSE LET main_content == IF semantic.value.len < MinSemanticLen
                             THEN _extract_content_blocks(config, soup)
                           ELSE semantic
       IN  IF main_content.kind = "raise" THEN main_content
           ELSE Ret([title |-> None, description |-> None,
                     main_content |-> main_content.value,
                     links |-> PyList(0), metadata |-> EmptyDict])

InitSelect ==
  /\ env = AnyEnv
  /\ cache = <<>>
  /\ call = Idle
  /\ flows = <<>>
  /\ results = <<>>
  /\ collected = <<>>
  /\ returned = NotReturned
  /\ gen = NoRequest
  /\ fn \in {[op |-> "extract_content", config |-> config, soup |-> soup,
              out |-> NotReturned] :
               config \in ScrapingConfigs, soup \in Soups}

\* the call returns or raises
Select ==
  /\ fn.op = "extract_content"
  /\ fn.out.kind = "none"
  /\ fn' = [fn EXCEPT !.out = extract_content(fn.config, fn.soup)]
  /\ UNCHANGED <<env, cache, call, flows, results, collected, returned, gen>>

NextSelect == Select

SpecSelect == InitSelect /\ [][NextSelect]_vars

\* a configuration whose limit no text of a soup exceeds
NoLimit == [max_content_length |-> max_content_length + 1]

\* the length of the text the strategies select when nothing limits it
SelectedLen(soup) == extract_content(NoLimit, soup).value.main_content.len

\* C20: the main_content of every ExtractedContent that extract_content
\* returns is no longer than the configured maximum and is the whole
\* selected text; when the selected text exceeds the maximum the call raises
\* ContentTooLargeError and returns no content.
C20_NeverTruncated ==
  /\ fn.out.kind = "return" =>
       /\ fn.out.value.main_content.len <= fn.config.max_content_length
       /\ fn.out.value.main_content.len = SelectedLen(fn.soup)
  /\ fn.out.kind # "none" /\ SelectedLen(fn.soup) > fn.config.max_content_length =>
       /\ fn.out.kind = "raise"
       /\ fn.out.value.cls = "ContentTooLargeError"

\* the text selected from a soup under the default limit is one character
\* too long, and the call has raised
C20_Witness ==
  /\ fn.op = "extract_content"
  /\ fn.config.max_content_length = max_content_length
  /\ SelectedLen(fn.soup) = max_content_length + 1
  /\ fn.out.kind = "raise"

(***************************************************************************)
(* ImprovedWebScraper.scrape: the validation of the content that           *)
(* extract_content returned, and extract on pages whose scrape is decided  *)
(* by it.                                                                  *)
(***************************************************************************)
\* the least number of characters the trimmed main content must have
MinMainContent == 50

\* the content extract_content returned, with main content `main_content`
Page(main_content) == [ShortPage EXCEPT !.main_content = main_content]

\* pages with no main content, with main content just below and at the
\* limit, with main content that is below the limit only once trimmed, and
\* with main content above it
Pages ==
  {Page(PyStr(shape[1], shape[2])) :
     shape \in {<<0, 0>>, <<49, 49>>, <<52, 49>>, <<50, 50>>, <<60, 60>>}}

InsufficientContent ==
  Raise(Exc("ExtractionError", <<"Insufficient content extracted from page">>))

\* the validation comparing the length of the untrimmed text
scrape_untrimmed(content) ==
  IF ~Truthy(content.main_content) \/ Len_(content.main_content) < MinMainContent
    THEN InsufficientContent
  ELSE Ret(content)

\* ImprovedWebScraper.scrape from `# Validate content` on
scrape(content) ==
  IF ~Truthy(content.main_content) \/ StripLen(content.main_content) < MinMainContent
    THEN InsufficientContent
  ELSE Ret(content)

\* the state after DataExtractor.__init__, every URL serving the page `page`
InitPage ==
  /\ env \in {[is_model_available |-> IsModelAvailableOutcomes,
               scrape |-> [url \in Urls \cup Range(ScenarioUrls) |-> {scrape(page)}],
               generate |-> GenerateOutcomes,
               page |-> page] : page \in Pages}
  /\ cache = <<>>
  /\ call = Idle
  /\ flows = <<>>
  /\ results = <<>>
  /\ collected = <<>>
  /\ returned = NotReturned
  /\ gen = NoRequest
  /\ fn = NoCallFn

SpecPage == InitPage /\ [][Next]_vars

\* C21, one step: an invocation of extract that scrapes a page whose main
\* content has fewer than 50 characters after trimming ends in that step:
\* the scraper raised a typed extraction failure, the backend and the scorer
\* were not called, the cache is as it was, and the invocation returns a
\* degraded record (confidence 0.0, the failure in structured_info.error);
\* an invocation that has ended takes no further step.
C21_ScrapeStep ==
  \A i \in DOMAIN flows :
    /\ (Steps(i) /\ flows[i].pc = "scrape"
          /\ StripLen(env.page.main_content) < MinMainContent) =>
         /\ flows'[i].pc = "done"
         /\ flows'[i].raised # None
         /\ IsInstance(flows'[i].raised, {"ExtractionError"})
         /\ flows'[i].calls \cap {"generate_structured_data", "calculate_confidence"} = {}
         /\ cache' = cache
         /\ flows'[i].out.kind = "return"
         /\ IsRecord(flows'[i].out.value)
         /\ flows'[i].out.value.confidence = [h |-> 0, r |-> 0]
         /\ Contains(ErrorText(flows'[i].out.value),
                     <<"Insufficient content extracted from page">>)
    /\ flows[i].pc = "done" => ~Steps(i)

MaxText == 4

Chars == {"a", " "}

Strings == UNION {[1..n -> Chars] : n \in 0..MaxText}

Ellipsis == <<".", ".", ".">>

\* the str with the characters s
PyText(s) == [t |-> "text", chars |-> s]

\* s[:k], for k of either sign
SliceTo(s, k) ==
  IF k >= 0 THEN SubSeq(s, 1, Min(k, Len(s)))
  ELSE SubSeq(s, 1, Max(0, Len(s) + k))

\* s.strip()
strip(s) ==
  LET inked == {k \in DOMAIN s : s[k] # " "}
  IN  IF inked = {} THEN <<>>
      ELSE SubSeq(s, CHOOSE k \in inked : \A j \in inked : k <= j,
                     CHOOSE k \in inked : \A j \in inked : k >= j)

\* s.rsplit(" ", 1)[0]
rsplit_head(s) ==
  LET spaces == {k \in DOMAIN s : s[k] = " "}
  IN  IF spaces = {} THEN s
      ELSE SubSeq(s, 1, (CHOOSE k \in spaces : \A j \in spaces : k >= j) - 1)

\* what the backend does on the summary request: a reply text or a failure
SummaryReplies == {Ret(PyText(s)) : s \in Strings} \cup {Raise(TransportError)}

\* summarize_content: the same statements in OllamaClient and in
\* AnthropicClient, which differ in the backend call alone
summarize_content(client, content, max_length, reply) ==
  IF reply.kind = "return"
    THEN LET summary == strip(reply.value.chars)
         IN  IF Len(summary) > max_length
               THEN Ret(PyText(rsplit_head(SliceTo(summary, max_length - 3)) \o Ellipsis))
             ELSE Ret(PyText(summary))
  ELSE IF IsInstance(reply.value, {"Exception"})
    THEN IF Len(content) > max_length
           THEN Ret(PyText(SliceTo(content, max_length - 3) \o Ellipsis))
         ELSE Ret(PyText(content))
  ELSE reply

InitSummarize ==
  /\ env = AnyEnv
  /\ cache = <<>>
  /\ call = Idle
  /\ flows = <<>>
  /\ results = <<>>
  /\ collected = <<>>
  /\ returned = NotReturned
  /\ gen = NoRequest
  /\ fn \in {[op |-> "summarize_content", client |-> client, content |-> content,
              max_length |-> max_length, reply |-> reply, out |-> NotReturned] :
               client \in {"ollama", "anthropic"}, content \in Strings,
               max_length \in 0..(MaxText + 1), reply \in SummaryReplies}

\* the call returns or raises
Summarize ==
  /\ fn.op = "summarize_content"
  /\ fn.out.kind = "none"
  /\ fn' = [fn EXCEPT !.out = summarize_content(fn.client, fn.content, fn.max_length, fn.reply)]
  /\ UNCHANGED <<env, cache, call, flows, results, collected, returned, gen>>

NextSummarize == Summarize

SpecSummarize == InitSummarize /\ [][NextSummarize]_vars

\* C22: a call of summarize_content that has ended has returned; when the
\* backend failed it returned the content itself if that has at most
\* max_length characters and otherwise a preview cut from the start of the
\* content; and whether the backend failed or not, the returned string has
\* at most max_length characters.
C22_SummaryWithinMaxLength ==
  fn.out.kind # "none" =>
    /\ fn.out.kind = "return"
    /\ fn.reply.kind = "raise" =>
         IF Len(fn.content) <= fn.max_length THEN fn.out.value.chars = fn.content
         ELSE \E k \in 0..Len(fn.content) :
                fn.out.value.chars = SubSeq(fn.content, 1, k) \o Ellipsis
    /\ Len(fn.out.value.chars) <= fn.max_length

(***************************************************************************)
(* DataExtractor.extract_with_summary: extract, then the summary of the    *)
(* main content written into the record extract returned.  That record is  *)
(* an object: when it is also the value of a cache entry, the write shows  *)
(* in the cache.                                                           *)
(***************************************************************************)
\* llm_client.summarize_content(main_content, max_length=max_length): a
\* summary long enough for the scorer's summary bonus, a shorter one, or an
\* exception of a client that does not handle its own failures
SummarizeOutcomes ==
  {Ret(PyStr(150, 150)), Ret(PyStr(15, 15)),
   Raise(Exc("Exception", <<"summary backend failed">>))}

\* structured_info["summary"] = summary
SetSummary(structured_info, summary) ==
  PyDict([k \in DOMAIN structured_info.items \cup {"summary"} |->
            IF k = "summary" THEN summary ELSE structured_info.items[k]])

\* the summary step computing the confidence anew
WithSummary_rescored(result, o) ==
  IF o.kind = "raise" \/ result.structured_info.t # "dict" THEN result
  ELSE LET info == SetSummary(result.structured_info, o.value)
       IN  [result EXCEPT !.structured_info = info,
                          !.confidence =
                            [h |-> calculate_confidence(ConfidenceConfig, result.content, info),
                             r |-> 0]]

\* the try block of extract_with_summary on the record `result`, the call
\* of summarize_content having ended with `o`: a mapping gets the key, a
\* value of another kind that has no attribute `summary` is left alone
WithSummary(result, o) ==
  IF o.kind = "raise" \/ result.structured_info.t # "dict" THEN result
  ELSE [result EXCEPT !.structured_info = SetSummary(result.structured_info, o.value)]

\* extract returning a copy of the record it has cached
IsCachedObject_copy(f, c) == FALSE

\* the record invocation f of extract returned is the object the cache holds
\* for its URL: extract returned the entry itself, or it stored the record
\* it built and returned it
IsCachedObject(f, c) ==
  /\ f.out.kind = "return"
  /\ f.url \in DOMAIN c
  /\ \/ f.calls = {"cache"}
     \/ "calculate_confidence" \in f.calls /\ ShouldCache(f.out.value.confidence)

\* the caller invokes extract_with_summary(url, force_refresh=force_refresh);
\* max_length is handed on to summarize_content
ExtractWithSummary(url, force_refresh) ==
  /\ call.op = "idle"
  /\ call' = [op |-> "extract_with_summary", urls |-> <<url>>, max_workers |-> 0]
  /\ flows' = <<Flow(url, force_refresh, "begin")>>
  /\ UNCHANGED <<gen, fn, env, cache, results, collected, returned>>

\* extract has returned: the summary step and the return.  An exception
\* that left extract leaves extract_with_summary; a record and its content
\* are objects, which are true, so the summary step is made for every
\* record.  fn records the call of summarize_content that was made.
SummaryStep ==
  /\ call.op = "extract_with_summary"
  /\ flows[1].pc = "done"
  /\ LET f == flows[1] IN
     IF f.out.kind = "raise"
       THEN /\ returned' = f.out
            /\ fn' = NoCallFn
            /\ UNCHANGED cache
     ELSE \E o \in SummarizeOutcomes :
            LET result == WithSummary(f.out.value, o) IN
            /\ returned' = Ret(result)
            /\ fn' = [op |-> "summarize_content", out |-> o]
            /\ cache' = IF IsCachedObject(f, cache)
                          THEN [cache EXCEPT ![f.url] = result]
                        ELSE cache
  /\ call' = [op |-> "returned", urls |-> call.urls, max_workers |-> 0]
  /\ flows' = <<>>
  /\ UNCHANGED <<gen, env, results, collected>>

NextSummary ==
  \/ call.op = "idle" /\ \E url \in Urls, force_refresh \in BOOLEAN : Extract(url, force_refresh)
  \/ ExtractReturn
  \/ call.op = "idle" /\ \E url \in Urls, force_refresh \in BOOLEAN :
                            ExtractWithSummary(url, force_refresh)
  \/ SummaryStep
  \/ Resume
  \/ clear_cache
  \/ \E i \in DOMAIN flows : Begin(i)
  \/ \E i \in DOMAIN flows : ReadCache(i)
  \/ \E i \in DOMAIN flows : CheckModel(i)
  \/ \E i \in DOMAIN flows : Scrape(i)
  \/ \E i \in DOMAIN flows : Process(i)
  \/ \E i \in DOMAIN flows : Finish(i)

SpecSummary == Init /\ [][NextSummary]_vars

\* the fields of the mapping `info` other than summary
OtherFields(info) == [k \in DOMAIN info.items \ {"summary"} |-> info.items[k]]

\* C23, one step: the step in which extract_with_summary returns.
C23_ReturnStep ==
  (call.op = "extract_with_summary" /\ call'.op = "returned" /\ flows[1].out.kind = "return") =>
    LET before == flows[1].out.value
        after == returned'.value
    IN  /\ returned'.kind = "return"
        /\ after.url = before.url
        /\ after.extracted_at = before.extracted_at
        /\ after.content = before.content
        /\ after.confidence = before.confidence
        /\ after.structured_info.t = before.structured_info.t
        /\ before.structured_info.t = "dict" =>
             OtherFields(after.structured_info) = OtherFields(before.structured_info)
        /\ before.structured_info.t # "dict" => after.structured_info = before.structured_info
        /\ (fn'.op = "summarize_content" /\ fn'.out.kind = "raise") => after = before

\* C23: extract_with_summary returns the record that extract produced with
\* at most the summary of its structured_info changed: url, extracted_at,
\* content, confidence and every other field of structured_info are as
\* extract left them; when the summary step fails the record is returned
\* entirely unchanged and nothing is raised.
C23_OnlySummaryChanges == [][C23_ReturnStep]_vars

\* extract_with_summary has returned a record whose summary is the one the
\* summary step produced, in place of the 30 characters the backend gave
C23_Witness ==
  /\ call.op = "returned"
  /\ fn.op = "summarize_content"
  /\ fn.out = Ret(PyStr(15, 15))
  /\ returned.kind = "return"
  /\ returned.value.structured_info = SetSummary(RichInfo, PyStr(15, 15))
  /\ returned.value.confidence.h > CacheThreshold

\* C29, one step: extract_with_summary returns after a cache hit and a
\* summary step that produced a summary.
C29_RewriteStep ==
  (/\ call.op = "extract_with_summary"
   /\ call'.op = "returned"
   /\ flows[1].calls = {"cache"}
   /\ fn'.op = "summarize_content"
   /\ fn'.out.kind = "return") =>
    LET url == flows[1].url IN
    /\ flows[1].out = Ret(cache[url])
    /\ DOMAIN cache' = DOMAIN cache
    /\ cache'[url].structured_info.items.summary = fn'.out.value
    /\ cache'[url].confidence = cache[url].confidence
    /\ cache'[url] = returned'.value
    /\ \A u \in DOMAIN cache \ {url} : cache'[u] = cache[u]

\* C29: on a cache hit extract returns the cached object itself, so
\* extract_with_summary on a cached URL rewrites the summary of the cache
\* entry in place: the entry keeps the confidence that was computed for the
\* original summary, no other entry changes, and a later extract of the URL
\* without force_refresh returns the entry as rewritten.
C29_SummaryRewritesCacheEntry ==
  /\ [][C29_RewriteStep]_vars
  /\ [](\A i \in Done : flows[i].calls = {"cache"} => flows[i].out = Ret(cache[flows[i].url]))

\* a later extract has returned from the cache a record with the summary
\* the summary step wrote and a confidence the scorer does not give it
C29_Witness ==
  /\ call.op = "extract"
  /\ \E i \in Done :
       /\ flows[i].calls = {"cache"}
       /\ flows[i].out.kind = "return"
       /\ flows[i].out.value.structured_info = SetSummary(RichInfo, PyStr(15, 15))
       /\ flows[i].out.value.confidence.h #
            calculate_confidence(ConfidenceConfig, flows[i].out.value.content,
                                 flows[i].out.value.structured_info)

(***************************************************************************)
(* JSONValidator: the type mismatches of the default structure.            *)
(***************************************************************************)
\* the fields of the data that are present with a value of another type
\* than required_fields expects
Mismatched(data) ==
  {field \in DOMAIN required_fields \cap DOMAIN data.items :
     data.items[field].t # required_fields[field]}

\* a string in a list field, a null in a string field
StringInListField(data, field) ==
  required_fields[field] = "list" /\ data.items[field].t = "str"
NullInStringField(data, field) ==
  required_fields[field] = "str" /\ data.items[field].t = "null"

\* C24 as stated: of the present fields of the wrong type, a string in a
\* list field becomes a single-element list and a null in a string field
\* the empty string, and neither makes the data invalid; every other
\* mismatched value is in the fixed result as it was, and is_valid is false.
C24_TwoSafeCoercions ==
  (fn.op = "validate_and_fix" /\ fn.out.kind = "return"
     /\ ~Truthy(fn.schema) /\ fn.data.t = "dict") =>
    LET is_valid == fn.out.value.is_valid
        fixed == fn.out.value.fixed_data
        others == {field \in Mismatched(fn.data) :
                     ~StringInListField(fn.data, field) /\ ~NullInStringField(fn.data, field)}
    IN  /\ \A field \in Mismatched(fn.data) :
             IF StringInListField(fn.data, field) THEN fixed.items[field] = PyList(1)
             ELSE IF NullInStringField(fn.data, field) THEN fixed.items[field] = PyStr(0, 0)
             ELSE fixed.items[field] = fn.data.items[field] /\ ~is_valid
        /\ (DOMAIN required_fields \subseteq DOMAIN fn.data.items /\ others = {}) => is_valid

\* C24, amended: there are three coercions, each keeping is_valid true: a
\* string in a list field becomes a single-element list, the empty string
\* the empty list; a null in a string field becomes the empty string; a
\* value in entities that is not a mapping becomes the mapping of the three
\* empty sub-lists.  Every other mismatched value is in the fixed result as
\* it was, and is_valid is false.
C24_ThreeCoercions ==
  (fn.op = "validate_and_fix" /\ fn.out.kind = "return"
     /\ ~Truthy(fn.schema) /\ fn.data.t = "dict") =>
    LET is_valid == fn.out.value.is_valid
        fixed == fn.out.value.fixed_data
        others == {field \in Mismatched(fn.data) :
                     /\ ~StringInListField(fn.data, field)
                     /\ ~NullInStringField(fn.data, field)
                     /\ field # "entities"}
    IN  /\ \A field \in Mismatched(fn.data) :
             IF StringInListField(fn.data, field)
               THEN fixed.items[field] =
                      IF Len_(fn.data.items[field]) > 0 THEN PyList(1) ELSE PyList(0)
             ELSE IF NullInStringField(fn.data, field) THEN fixed.items[field] = PyStr(0, 0)
             ELSE IF field = "entities" THEN fixed.items[field] = NoEntities
             ELSE fixed.items[field] = fn.data.items[field] /\ ~is_valid
        /\ (DOMAIN required_fields \subseteq DOMAIN fn.data.items /\ others = {}) => is_valid

\* data with all eight fields, a list in entities and an empty string in
\* key_facts, has been found valid: entities holds the three empty
\* sub-lists and key_facts the empty list
C24_Witness ==
  /\ fn.op = "validate_and_fix"
  /\ fn.out.kind = "return"
  /\ fn.schema = None
  /\ fn.data.t = "dict"
  /\ DOMAIN required_fields \subseteq DOMAIN fn.data.items
  /\ fn.data.items.entities = PyList(1)
  /\ fn.data.items.key_facts = PyStr(0, 0)
  /\ fn.out.value.is_valid
  /\ fn.out.value.fixed_data.items.entities = NoEntities
  /\ fn.out.value.fixed_data.items.key_facts = PyList(0)

(***************************************************************************)
(* JSONParser._extract_with_bracket_matching on texts given character by   *)
(* character.  The characters are the braces, the double quote, the        *)
(* backslash, the colon, a letter, and "9", which stands for an integer    *)
(* literal of more than MaxDigits digits (the scan treats a digit as any   *)
(* other character).  Objects have at most one member.                     *)
(***************************************************************************)
\* the most characters of a text drawn exhaustively
MaxJsonLen == 5

JsonChars == {"{", "}", "\"", "\\", ":", "a", "9"}

\* every text of up to MaxJsonLen characters, and longer texts in which a
\* string holds a brace or an escaped quote
JsonTexts ==
  UNION {[1..n -> JsonChars] : n \in 0..MaxJsonLen}
  \cup {<<"{", "\"", "}", "\"", ":", "{", "}", "}">>,
        <<"{", "\"", "{", "\"", ":", "{", "}", "}">>,
        <<"a", "{", "\"", "\\", "\"", "}", "\"", ":", "{", "}", "}">>,
        <<"{", "a", "{", "\"", "\"", ":", "{", "}", "}">>,
        <<"a", "{", "\"", "\"", ":", "9", "}">>,
        <<"{", "\"", "\"", ":", "9">>  \o <<"{", "}">>}

\* the value json.loads gives the object with the text s
JsonObject(s) == [t |-> "dict", source |-> s]

\* the scanner of json.loads at position p of s: "ok" with the position
\* after the value, "syntax" where it raises JSONDecodeError, "int" where
\* the conversion of an integer literal raises ValueError.  A string ends at
\* the first quote that no backslash precedes; after a backslash only a
\* quote or a backslash is a valid escape.
RECURSIVE ScanString(_, _)
ScanString(s, p) ==
  IF p > Len(s) THEN [kind |-> "syntax", next |-> p]
  ELSE IF s[p] = "\"" THEN [kind |-> "ok", next |-> p + 1]
  ELSE IF s[p] = "\\"
    THEN IF p + 1 <= Len(s) /\ s[p + 1] \in {"\"", "\\"} THEN ScanString(s, p + 2)
         ELSE [kind |-> "syntax", next |-> p]
  ELSE ScanString(s, p + 1)

RECURSIVE ScanValue(_, _)
ScanValue(s, p) ==
  IF p > Len(s) THEN [kind |-> "syntax", next |-> p]
  ELSE IF s[p] = "9" THEN [kind |-> "int", next |-> p]
  ELSE IF s[p] = "\"" THEN ScanString(s, p + 1)
  ELSE IF s[p] # "{" THEN [kind |-> "syntax", next |-> p]
  ELSE IF p + 1 <= Len(s) /\ s[p + 1] = "}" THEN [kind |-> "ok", next |-> p + 2]
  ELSE IF ~(p + 1 <= Len(s) /\ s[p + 1] = "\"") THEN [kind |-> "syntax", next |-> p]
  ELSE LET key == ScanString(s, p + 2) IN
       IF key.kind # "ok" THEN key
       ELSE IF ~(key.next <= Len(s) /\ s[key.next] = ":") THEN [kind |-> "syntax", next |-> key.next]
       ELSE LET member == ScanValue(s, key.next + 1) IN
            IF member.kind # "ok" THEN member
            ELSE IF member.next <= Len(s) /\ s[member.next] = "}"
              THEN [kind |-> "ok", next |-> member.next + 1]
            ELSE [kind |-> "syntax", next |-> member.next]

\* json.loads(s) for a text s that starts with an opening brace
json_loads_text(s) ==
  LET scanned == ScanValue(s, 1) IN
  IF scanned.kind = "int"
    THEN Raise(Exc("ValueError", <<"Exceeds the limit for integer string conversion">>))
  ELSE IF scanned.kind = "ok" /\ scanned.next = Len(s) + 1 THEN Ret(JsonObject(s))
  ELSE Raise(Exc("JSONDecodeError", <<"Expecting value">>))

\* JSONParser._try_direct_parse on such a text
_try_direct_parse_text(s) ==
  LET o == json_loads_text(s)
  IN  IF o.kind = "raise" /\ o.value.cls = "JSONDecodeError" THEN Ret(None) ELSE o

\* the loop of _extract_balanced_json from position i on, `st` holding
\* bracket_count, in_string and escape_next: the end of the balanced text,
\* 0 when the loop runs out
RECURSIVE BalancedEnd(_, _, _)
BalancedEnd(text, i, st) ==
  IF i > Len(text) THEN 0
  ELSE LET char == text[i] IN
       IF st.escape_next THEN BalancedEnd(text, i + 1, [st EXCEPT !.escape_next = FALSE])
       ELSE IF char = "\\" /\ st.in_string
         THEN BalancedEnd(text, i + 1, [st EXCEPT !.escape_next = TRUE])
       ELSE IF char = "\""
         THEN BalancedEnd(text, i + 1, [st EXCEPT !.in_string = ~st.in_string])
       ELSE IF ~st.in_string
         THEN LET bracket_count == CASE char = "{" -> st.bracket_count + 1
                                     [] char = "}" -> st.bracket_count - 1
                                     [] OTHER -> st.bracket_count
              IN  IF bracket_count = 0 THEN i
                  ELSE BalancedEnd(text, i + 1, [st EXCEPT !.bracket_count = bracket_count])
       ELSE BalancedEnd(text, i + 1, st)

\* JSONParser._extract_balanced_json(text, start), positions counted from 1;
\* None is the empty text, which `if json_text` treats alike
_extract_balanced_json_text(text, start) ==
  IF start > Len(text) \/ text[start] # "{" THEN <<>>
  ELSE LET end == BalancedEnd(text, start,
                              [bracket_count |-> 0, in_string |-> FALSE, escape_next |-> FALSE])
       IN  IF end = 0 THEN <<>> ELSE SubSeq(text, start, end)

\* JSONParser._extract_with_bracket_matching on the start positions from
\* `start` on
RECURSIVE TryStarts(_, _)
TryStarts(text, start) ==
  IF start > Len(text) THEN Ret(None)
  ELSE IF text[start] # "{" THEN TryStarts(text, start + 1)
  ELSE LET json_text == _extract_balanced_json_text(text, start) IN
       IF json_text = <<>> THEN TryStarts(text, start + 1)
       ELSE LET result == _try_direct_parse_text(json_text) IN
            IF Yields(result) THEN result ELSE TryStarts(text, start + 1)

\* JSONParser._extract_with_bracket_matching
_extract_with_bracket_matching_text(text) == TryStarts(text, 1)

InitBracket ==
  /\ env = AnyEnv
  /\ cache = <<>>
  /\ call = Idle
  /\ flows = <<>>
  /\ results = <<>>
  /\ collected = <<>>
  /\ returned = NotReturned
  /\ gen = NoRequest
  /\ fn \in {[op |-> "_extract_with_bracket_matching", text |-> text, out |-> NotReturned] :
               text \in JsonTexts}

\* the call returns or raises
MatchBrackets ==
  /\ fn.op = "_extract_with_bracket_matching"
  /\ fn.out.kind = "none"
  /\ fn' = [fn EXCEPT !.out = _extract_with_bracket_matching_text(fn.text)]
  /\ UNCHANGED <<env, cache, call, flows, results, collected, returned, gen>>

NextBracket == MatchBrackets

SpecBracket == InitBracket /\ [][NextBracket]_vars

\* Seen from the opening brace at `start`: the character at i is escaped
\* when the character before it is a backslash inside a string that is not
\* escaped itself; the character at i is inside a string when an odd number
\* of unescaped quotes lies between start and i.
RECURSIVE Escaped(_, _, _), InsideString(_, _, _)
Escaped(text, start, i) ==
  /\ i > start
  /\ text[i - 1] = "\\"
  /\ InsideString(text, start, i - 1)
  /\ ~Escaped(text, start, i - 1)

InsideString(text, start, i) ==
  Cardinality({j \in start..(i - 1) : text[j] = "\"" /\ ~Escaped(text, start, j)}) % 2 = 1

\* the count of opening minus closing braces outside strings in start..i
OpenBraces(text, start, i) ==
  Cardinality({j \in start..i : text[j] = "{" /\ ~InsideString(text, start, j)})
  - Cardinality({j \in start..i : text[j] = "}" /\ ~InsideString(text, start, j)})

\* the shortest text from `start` at whose end that count is zero, the
\* empty text when there is none
ShortestBalanced(text, start) ==
  LET ends == {i \in start..Len(text) : OpenBraces(text, start, i) = 0}
  IN  IF ends = {} THEN <<>>
      ELSE SubSeq(text, start, CHOOSE i \in ends : \A j \in ends : i <= j)

\* C25: bracket matching takes, for each position of an opening brace in
\* increasing order, the shortest substring from there at whose end the
\* count of opening minus closing braces outside double-quoted strings (a
\* backslash inside a string escapes the next character) is zero, and no
\* candidate when there is none; the result is the strict parse of the
\* first candidate that parses, and null when no candidate parses.
C25_BracketMatching ==
  (fn.op = "_extract_with_bracket_matching" /\ fn.out.kind # "none") =>
    LET parsing == {start \in DOMAIN fn.text :
                      /\ fn.text[start] = "{"
                      /\ ShortestBalanced(fn.text, start) # <<>>
                      /\ json_loads_text(ShortestBalanced(fn.text, start)).kind = "return"}
    IN  IF parsing = {} THEN fn.out = Ret(None)
        ELSE fn.out = Ret(JsonObject(ShortestBalanced(fn.text,
                            CHOOSE start \in parsing : \A other \in parsing : start <= other)))

(***************************************************************************)
(* ContentExtractor: the semantic pass and the choice between the two      *)
(* strategies, on soups whose texts are around the two limits.             *)
(***************************************************************************)
\* a container with paragraphs whose cleaned text has n characters
TextBlock(n) ==
  [text_len |-> n, paragraphs |-> 2, headings |-> 0, unwanted |-> 0,
   links |-> 0, words |-> n \div 5, cleaned |-> n]

\* a <main> of 40 characters and a <div class="article-content"> of 600:
\* the div matches the patterns content and article-content, so the
\* semantic pass meets it twice; both elements are containers
ScenarioSoup ==
  [semantic |-> <<Element(40), Element(600), Element(600)>>,
   containers |-> <<TextBlock(40), TextBlock(600)>>,
   body |-> 640]

\* soups with semantic elements of 40, 50, 51, 99, 100 and 600 characters,
\* containers of 70 and 300, and a body of 20
SemanticSoups ==
  {[semantic |-> semantic, containers |-> containers, body |-> 20] :
     semantic \in SeqsUpTo({Element(n) : n \in {40, 50, 51, 99, 100, 600}}, MaxElements),
     containers \in {<<>>, <<TextBlock(70)>>, <<TextBlock(70), TextBlock(300)>>}}
  \cup {ScenarioSoup}

DefaultScraping == [max_content_length |-> max_content_length]

InitSemantic ==
  /\ env = AnyEnv
  /\ cache = <<>>
  /\ call = Idle
  /\ flows = <<>>
  /\ results = <<>>
  /\ collected = <<>>
  /\ returned = NotReturned
  /\ gen = NoRequest
  /\ fn \in {[op |-> op, config |-> DefaultScraping, soup |-> soup, out |-> NotReturned] :
               op \in {"_extract_semantic_content", "extract_content"},
               soup \in SemanticSoups}

\* a call of the semantic pass returns or raises
SelectSemantic ==
  /\ fn.op = "_extract_semantic_content"
  /\ fn.out.kind = "none"
  /\ fn' = [fn EXCEPT !.out = _extract_semantic_content(fn.config, fn.soup)]
  /\ UNCHANGED <<env, cache, call, flows, results, collected, returned, gen>>

NextSemantic == SelectSemantic \/ Select

SpecSemantic == InitSemantic /\ [][NextSemantic]_vars

\* the lengths of the cleaned texts of the semantic elements that exceed 50,
\* and the greatest of them, 0 when there is none
CandidateLens(soup) ==
  {soup.semantic[i].cleaned : i \in DOMAIN soup.semantic} \ (0..50)

LongestCandidate(soup) ==
  IF CandidateLens(soup) = {} THEN 0
  ELSE CHOOSE n \in CandidateLens(soup) : \A m \in CandidateLens(soup) : n >= m

\* C26: the semantic pass returns the longest cleaned text among the
\* semantic candidates of more than 50 characters (the empty text when
\* there is none), never a candidate of 50 characters or fewer;
\* extract_content takes the result of the density fallback only when the
\* semantic pass yields fewer than 100 characters, and the text of the
\* semantic pass otherwise; the tree with a 40-character main and a
\* 600-character article-content div yields the 600-character block.
C26_LongestSemanticCandidate ==
  fn.out.kind = "return" =>
    /\ fn.op = "_extract_semantic_content" =>
         /\ fn.out.value.len = LongestCandidate(fn.soup)
         /\ fn.out.value.len = 0 \/ fn.out.value.len > 50
    /\ fn.op = "extract_content" =>
         /\ fn.out.value.main_content =
              IF LongestCandidate(fn.soup) < 100
                THEN _extract_content_blocks(fn.config, fn.soup).value
              ELSE PyStr(LongestCandidate(fn.soup), LongestCandidate(fn.soup))
         /\ fn.soup = ScenarioSoup => fn.out.value.main_content.len = 600

\* the semantic pass has returned the empty text for a soup whose only
\* semantic element has 50 characters
C26_Witness ==
  /\ fn.op = "_extract_semantic_content"
  /\ fn.soup.semantic = <<Element(50)>>
  /\ fn.out.kind = "return"
  /\ fn.out.value.len = 0

(***************************************************************************)
(* ResourceManager: the browser session.  A handle is "open" or "unset";   *)
(* `released` lists the handles in the order their release was called.     *)
(***************************************************************************)
\* the most sessions entered and the most fetches made in a run
MaxSessions == 2
MaxFetches == 2

\* the handles in the order _setup_browser acquires them
Handles == <<"playwright", "browser", "context">>

\* the state after ResourceManager.__init__
NewManager ==
  [op |-> "ResourceManager", pc |-> "new",
   playwright |-> "unset", browser |-> "unset", context |-> "unset",
   acquired |-> {},        \* the handles the current session acquired
   released |-> <<>>,      \* the releases called since the session was entered
   errors |-> {},          \* the list `errors` of the last _cleanup_browser
   out |-> NotReturned,    \* how the with statement was left
   sessions |-> 0, fetches |-> 0, pages |-> 0,
   fetch_out |-> NotReturned]

\* _cleanup_browser letting the exception of a failed release escape
_cleanup_browser_raising(m, failing) ==
  LET open == SelectSeq(<<"context", "browser", "playwright">>, LAMBDA h : m[h] = "open")
      stop == {k \in DOMAIN open : open[k] \in failing}
      last == IF stop = {} THEN Len(open) ELSE CHOOSE k \in stop : \A j \in stop : k <= j
      done == {open[k] : k \in 1..last}
  IN  [m EXCEPT !.context = IF "context" \in done THEN "unset" ELSE @,
                !.browser = IF "browser" \in done THEN "unset" ELSE @,
                !.playwright = IF "playwright" \in done THEN "unset" ELSE @,
                !.released = @ \o SubSeq(open, 1, last),
                !.errors = failing \cap done]

\* ResourceManager._cleanup_browser, the release of the handles in `failing`
\* raising: context, browser and playwright are released in this order where
\* they are set, each is unset whatever its release did, and the failures
\* are logged
_cleanup_browser(m, failing) ==
  LET open == SelectSeq(<<"context", "browser", "playwright">>, LAMBDA h : m[h] = "open")
  IN  [m EXCEPT !.context = "unset", !.browser = "unset", !.playwright = "unset",
                !.released = @ \o open,
                !.errors = failing \cap Range(open)]

\* the try block of _setup_browser, the acquisition of the handle number
\* `fails` raising (none does when `fails` is 0)
Acquire(m, fails) ==
  LET got == {Handles[k] : k \in 1..(IF fails = 0 THEN Len(Handles) ELSE fails - 1)}
  IN  [m EXCEPT !.playwright = IF "playwright" \in got THEN "open" ELSE @,
                !.browser = IF "browser" \in got THEN "open" ELSE @,
                !.context = IF "context" \in got THEN "open" ELSE @,
                !.acquired = got]

SetupFailed == Raise(Exc("ScrapingError", <<"Failed to initialize browser">>))
NotInitialized == Raise(Exc("ScrapingError", <<"Browser not initialized">>))

\* `with self.resource_manager.browser_session():` is entered: _setup_browser
\* runs; when it fails it cleans up the partial state and raises, and the
\* finally clause of browser_session cleans up again
EnterSession ==
  /\ fn.op = "ResourceManager"
  /\ fn.pc \in {"new", "left"}
  /\ fn.sessions < MaxSessions
  /\ \E fails \in 0..Len(Handles), failing \in SUBSET Range(Handles) :
       LET entered == Acquire([fn EXCEPT !.released = <<>>, !.errors = {},
                                         !.out = NotReturned,
                                         !.sessions = @ + 1], fails)
       IN  IF fails = 0 THEN fn' = [entered EXCEPT !.pc = "body"]
           ELSE fn' = [_cleanup_browser(_cleanup_browser(entered, failing), {})
                         EXCEPT !.pc = "left", !.out = SetupFailed]
  /\ UNCHANGED <<env, cache, call, flows, results, collected, returned, gen>>

\* fetch_page(url): without a context it raises at once; otherwise a page is
\* opened, and closed in the finally clause whatever happened
FetchPage ==
  /\ fn.op = "ResourceManager"
  /\ fn.fetches < MaxFetches
  /\ IF fn.context = "unset"
       THEN fn' = [fn EXCEPT !.fetches = @ + 1, !.fetch_out = NotInitialized]
     ELSE \E o \in {Ret(PyStr(5000, 5000)),
                    Raise(Exc("ScrapingError", <<"Timeout while fetching page">>)),
                    Raise(handle_with_context("fetch_page", TransportError))} :
            fn' = [fn EXCEPT !.fetches = @ + 1, !.pages = @ + 1, !.fetch_out = o]
  /\ UNCHANGED <<env, cache, call, flows, results, collected, returned, gen>>

\* the body of the with statement ends, normally or by an exception, and
\* the finally clause of browser_session runs _cleanup_browser
LeaveSession ==
  /\ fn.op = "ResourceManager"
  /\ fn.pc = "body"
  /\ \E o \in {Ret(None), Raise(Exc("ExtractionError", <<"Insufficient content extracted from page">>)),
               Raise(Exc("Exception", <<"parser failed">>))},
        failing \in SUBSET Range(Handles) :
       fn' = [_cleanup_browser(fn, failing) EXCEPT !.pc = "left", !.out = o]
  /\ UNCHANGED <<env, cache, call, flows, results, collected, returned, gen>>

InitSession ==
  /\ env = AnyEnv
  /\ cache = <<>>
  /\ call = Idle
  /\ flows = <<>>
  /\ results = <<>>
  /\ collected = <<>>
  /\ returned = NotReturned
  /\ gen = NoRequest
  /\ fn = NewManager

NextSession == EnterSession \/ FetchPage \/ LeaveSession

SpecSession == InitSession /\ [][NextSession]_vars

\* C27, one step: a call of fetch_page while no session is open.
C27_FetchStep ==
  (fn.pc \in {"new", "left"} /\ fn'.fetches # fn.fetches) =>
    /\ fn'.fetch_out.kind = "raise"
    /\ IsInstance(fn'.fetch_out.value, {"ScrapingError"})
    /\ fn'.pages = fn.pages

\* C27: whenever browser_session has been left (normally, by an exception
\* of the body, or by a failure part-way through setup), the context, then
\* the browser, then the playwright runtime have each been released, in this
\* order, as far as they were acquired, and the three handles are unset; a
\* release that fails neither prevents the others nor is raised; fetch_page
\* without an open session raises the typed scraping error and opens no
\* page.
C27_SessionCleanup ==
  /\ [](fn.pc = "left" =>
          /\ fn.context = "unset" /\ fn.browser = "unset" /\ fn.playwright = "unset"
          /\ fn.released = SelectSeq(<<"context", "browser", "playwright">>,
                                     LAMBDA h : h \in fn.acquired)
          /\ fn.out.kind = "raise" =>
               \/ fn.out = SetupFailed /\ fn.acquired # Range(Handles)
               \/ fn.acquired = Range(Handles)
                    /\ fn.out.value.cls \in {"ExtractionError", "Exception"})
  /\ [][C27_FetchStep]_vars

\* a session whose body raised has been left, the releases of the context
\* and of the browser failed, and all three handles were released
C27_Witness ==
  /\ fn.op = "ResourceManager"
  /\ fn.pc = "left"
  /\ fn.out.kind = "raise"
  /\ fn.errors = {"context", "browser"}
  /\ fn.released = <<"context", "browser", "playwright">>
  /\ fn.playwright = "unset"

(***************************************************************************)
(* extract on results that carry an error flag: pages with and without     *)
(* every content signal, and a backend that returns a rich result, the     *)
(* safe fallback, or a rich result with an error field.                    *)
(***************************************************************************)
\* a page with a title, a description and 1,500 characters of main content
FullPage ==
  [title |-> PyStr(20, 20), description |-> PyStr(80, 80),
   main_content |-> PyStr(1500, 1500), links |-> PyList(3),
   metadata |-> EmptyDict]

\* a result with every signal the scorer rewards and an error field
FlaggedRichInfo ==
  PyDict([k \in DOMAIN RichInfo.items \cup {"error"} |->
            IF k = "error" THEN PyStr(12, 12) ELSE RichInfo.items[k]])

InitFlagged ==
  /\ env = [is_model_available |-> {Ret(PyBool(TRUE))},
            scrape |-> [url \in Urls \cup Range(ScenarioUrls) |->
                          {Ret(ShortPage), Ret(FullPage)}],
            generate |-> {Ret(RichInfo), Ret(FlaggedRichInfo),
                          Ret(_create_safe_fallback(Slice(FullPage.main_content, PreviewLen)))}]
  /\ cache = <<>>
  /\ call = Idle
  /\ flows = <<>>
  /\ results = <<>>
  /\ collected = <<>>
  /\ returned = NotReturned
  /\ gen = NoRequest
  /\ fn = NoCallFn

SpecFlagged == InitFlagged /\ [][Next]_vars

\* the invocations that have scored a result carrying an error flag
ScoredFlagged ==
  {i \in Done : /\ "calculate_confidence" \in flows[i].calls
                /\ flows[i].out.kind = "return"
                /\ HasErrorFlag(flows[i].out.value.structured_info)}

\* extract has returned to its caller the record of a safe fallback
ReturnedFallback ==
  /\ call.op = "returned"
  /\ returned.kind = "return"
  /\ Truthy(Get(returned.value.structured_info, "extraction_error", None))
  /\ "error" \notin DOMAIN returned.value.structured_info.items

\* C28 as stated: with the default configuration every scored result that
\* carries an error or extraction_error flag has confidence 0.0; no record
\* with a flag is in the cache; and once extract has returned a safe
\* fallback for a URL, the cache has no entry for the URL, so that every
\* later extract of it runs the whole pipeline again.
C28_FallbackAlwaysRerun ==
  /\ \A i \in ScoredFlagged : flows[i].out.value.confidence = [h |-> 0, r |-> 0]
  /\ \A u \in DOMAIN cache : ~HasErrorFlag(cache[u].structured_info)
  /\ ReturnedFallback => call.urls[1] \notin DOMAIN cache

\* C28, amended: with the default configuration every scored result that
\* carries an error or extraction_error flag has confidence 0.0; no record
\* with a flag is in the cache; and once extract has returned a safe
\* fallback for a URL, the cache has no entry for the URL unless it held one
\* before (the call was made with force_refresh and the earlier record is
\* still the entry), so that every later extract of a URL without an
\* earlier entry runs the whole pipeline again.
C28_FallbackNeverCached ==
  /\ \A i \in ScoredFlagged : flows[i].out.value.confidence = [h |-> 0, r |-> 0]
  /\ \A u \in DOMAIN cache : ~HasErrorFlag(cache[u].structured_info)
  /\ ReturnedFallback =>
       /\ returned.value.confidence = [h |-> 0, r |-> 0]
       /\ call.urls[1] \in DOMAIN cache =>
            /\ cache[call.urls[1]] # returned.value
            /\ Exceeds(cache[call.urls[1]].confidence, CacheThreshold)

\* extract has returned a safe fallback for a page with title, description
\* and 1,500 characters of content; the URL has no cache entry while
\* another URL has one
C28_Witness ==
  /\ ReturnedFallback
  /\ returned.value.content = FullPage
  /\ call.urls[1] \notin DOMAIN cache
  /\ DOMAIN cache # {}

(***************************************************************************)
(* AnthropicClient.generate_structured_data: the calls of a request.       *)
(***************************************************************************)
\* the plain-text run that was going on when the request ended, ended by
\* raising: its last backend call raised and the except clause of the
\* attempt raised a typed error for it
LastRunRaised(g) ==
  /\ g.text_calls > 0
  /\ g.last.kind = "raise"
  /\ ClassifyError(g.last.value, g.attempt) # None

\* C30: a request to AnthropicClient.generate_structured_data never raises
\* and makes at most 9 backend calls: up to 3 tool-call attempts, then up to
\* 3 plain-text attempts and, only if that plain-text run ended by raising,
\* one more plain-text run of up to 3 attempts; an error raised by the last
\* run, typed or not, is replaced by the safe fallback.
C30_NeverRaisesNineCalls ==
  gen.client = "anthropic" =>
    /\ gen.tool_calls <= 3
    /\ gen.text_calls <= 6
    /\ BackendCalls(gen) <= 9
    /\ (gen.tool_calls > 0 /\ gen.text_calls > 0) => gen.tool_calls = 3
    /\ gen.tool_calls = 0 => gen.text_calls <= 3
    /\ gen.text_calls > 3 => gen.via = "handler" /\ gen.raised # None
    /\ gen.pc = "done" =>
         /\ gen.out.kind = "return"
         /\ LastRunRaised(gen) =>
              /\ gen.how = "fallback"
              /\ gen.out.value = _create_safe_fallback(Slice(gen.content, AnthropicPreviewLen))

\* a request has ended in the safe fallback after three tool-call attempts
\* and two plain-text runs of three attempts each, both of which raised
C30_Witness ==
  /\ gen.pc = "done"
  /\ gen.client = "anthropic"
  /\ gen.tool_calls = 3
  /\ gen.text_calls = 6
  /\ LastRunRaised(gen)
  /\ gen.raised.cls = "LLMError"
  /\ gen.how = "fallback"

====
